---- MODULE Spec2Model ----
(***************************************************************************)
(* A model of libwyag: the loose-object store, the tree and KVLM codecs,   *)
(* the index file format, and the commands that drive them.                *)
(*                                                                         *)
(* Byte strings are sequences of integers 0..255.  Positions follow the    *)
(* source: they are 0-based, -1 is the "not found" result of bytes.find,    *)
(* and slices clamp the way Python slices do.                              *)
(***************************************************************************)
EXTENDS Integers, Sequences, FiniteSets, TLC

\* ------------------------------------------------------------------------
\* Bytes the source names literally
\* ------------------------------------------------------------------------
SP == 32
NL == 10
NUL == 0
SLASH == 47

\* ------------------------------------------------------------------------
\* Bounds of the model
\* ------------------------------------------------------------------------
MaxLeaves == 3
MaxHeaders == 3
MaxRawLen == 4
MaxChain == 4

\* ------------------------------------------------------------------------
\* Python byte-string primitives
\* ------------------------------------------------------------------------
\* Results of operations that may raise: Ok(v) or Err(name of the exception).
Ok(v) == [ok |-> TRUE, val |-> v]
Err(e) == [ok |-> FALSE, err |-> e]

\* The({ e : x \in {d} }) is "LET x == d IN e" with d evaluated once, before e
The(S) == CHOOSE y \in S : TRUE

\* index normalisation of a slice bound / a find start: negative counts from
\* the end, everything is clamped into 0..len
Norm(s, k) ==
  IF k < 0 THEN (IF k + Len(s) < 0 THEN 0 ELSE k + Len(s))
  ELSE IF k > Len(s) THEN Len(s) ELSE k

\* s[i:j]
PySlice(s, i, j) ==
  LET a == Norm(s, i)
      b == Norm(s, j)
  IN IF a >= b THEN <<>> ELSE SubSeq(s, a + 1, b)

\* s[i:]
PySliceFrom(s, i) == PySlice(s, i, Len(s))

\* first position >= i that holds b, -1 when there is none
FindFrom(s, b, i) ==
  IF \E k \in i..(Len(s) - 1) : s[k + 1] = b
  THEN CHOOSE k \in i..(Len(s) - 1) :
         s[k + 1] = b /\ \A j \in i..(k - 1) : s[j + 1] # b
  ELSE -1

\* s.find(bytes([b]), start)
Find(s, b, start) == FindFrom(s, b, Norm(s, start))

\* s.startswith(p)
StartsWith(s, p) == Len(s) >= Len(p) /\ SubSeq(s, 1, Len(p)) = p

\* s.replace(b'\n', b'\n ')
RECURSIVE AddContinuation(_)
AddContinuation(s) ==
  IF s = <<>> THEN <<>>
  ELSE IF Head(s) = NL THEN <<NL, SP>> \o AddContinuation(Tail(s))
  ELSE <<Head(s)>> \o AddContinuation(Tail(s))

\* s.replace(b'\n ', b'\n')
RECURSIVE DropContinuation(_)
DropContinuation(s) ==
  IF s = <<>> THEN <<>>
  ELSE IF Len(s) >= 2 /\ s[1] = NL /\ s[2] = SP
       THEN <<NL>> \o DropContinuation(SubSeq(s, 3, Len(s)))
  ELSE <<Head(s)>> \o DropContinuation(Tail(s))

\* a < b for str / bytes (lexicographic, a proper prefix is smaller)
RECURSIVE LexLess(_, _)
LexLess(a, b) ==
  IF b = <<>> THEN FALSE
  ELSE IF a = <<>> THEN TRUE
  ELSE IF Head(a) < Head(b) THEN TRUE
  ELSE IF Head(a) > Head(b) THEN FALSE
  ELSE LexLess(Tail(a), Tail(b))

\* bytes.decode("utf-8") succeeds
RECURSIVE Utf8Valid(_)
Utf8Valid(s) ==
  LET cont(k) == k <= Len(s) /\ s[k] >= 128 /\ s[k] <= 191
      b == s[1]
  IN IF \A i \in 1..Len(s) : s[i] < 128 THEN TRUE
     ELSE IF b < 128 THEN Utf8Valid(Tail(s))
     ELSE IF b >= 194 /\ b <= 223
          THEN cont(2) /\ Utf8Valid(SubSeq(s, 3, Len(s)))
     ELSE IF b >= 224 /\ b <= 239
          THEN /\ cont(2) /\ cont(3)
               /\ (b = 224 => s[2] >= 160)
               /\ (b = 237 => s[2] <= 159)
               /\ Utf8Valid(SubSeq(s, 4, Len(s)))
     ELSE IF b >= 240 /\ b <= 244
          THEN /\ cont(2) /\ cont(3) /\ cont(4)
               /\ (b = 240 => s[2] >= 144)
               /\ (b = 244 => s[2] <= 143)
               /\ Utf8Valid(SubSeq(s, 5, Len(s)))
     ELSE FALSE

\* ------------------------------------------------------------------------
\* Object ids: 40 hex characters <-> 20 raw bytes
\* ------------------------------------------------------------------------
ShaRawLen == 20
ShaHexLen == 40

HexChars == <<48, 49, 50, 51, 52, 53, 54, 55, 56, 57, 97, 98, 99, 100, 101, 102>>

IsHexChar(c) == (c >= 48 /\ c <= 57) \/ (c >= 97 /\ c <= 102) \/ (c >= 65 /\ c <= 70)

HexVal(c) == IF c <= 57 THEN c - 48 ELSE IF c >= 97 THEN c - 87 ELSE c - 55

Zeros(n) == [i \in 1..n |-> 0]

RECURSIVE StripZeros(_)
StripZeros(d) == IF d # <<>> /\ Head(d) = 0 THEN StripZeros(Tail(d)) ELSE d

\* f"{int.from_bytes(raw, 'big'):040x}" for at most 20 bytes, digit by digit
HexOfRaw(raw) ==
  LET padded == Zeros(ShaRawLen - Len(raw)) \o raw
  IN [i \in 1..ShaHexLen |->
        LET byte == padded[(i + 1) \div 2]
        IN HexChars[(IF i % 2 = 1 THEN byte \div 16 ELSE byte % 16) + 1]]

\* int(sha, 16).to_bytes(20, "big"), digit by digit
RawOfHex(sha) ==
  IF sha = <<>> \/ \E i \in 1..Len(sha) : ~IsHexChar(sha[i])
  THEN Err("ValueError")
  ELSE LET digits == StripZeros([i \in 1..Len(sha) |-> HexVal(sha[i])])
       IN IF Len(digits) > ShaHexLen THEN Err("OverflowError")
          ELSE LET padded == Zeros(ShaHexLen - Len(digits)) \o digits
               IN Ok([i \in 1..ShaRawLen |-> padded[2 * i - 1] * 16 + padded[2 * i]])

\* ------------------------------------------------------------------------
\* Tree codec (objects.py)
\* ------------------------------------------------------------------------
\* GitTreeLeaf(mode, path, sha): mode and path are byte strings (the path is
\* kept in its UTF-8 encoding), sha is the hex string.
GitTreeLeaf(mode, path, sha) == [mode |-> mode, path |-> path, sha |-> sha]

\* tree_parse_one reading an id of 19 bytes
tree_parse_one_short(raw, start) ==
  LET x == Find(raw, SP, start)
      y == Find(raw, NUL, x)
  IN Ok([pos |-> y + 20,
         leaf |-> GitTreeLeaf(PySlice(raw, start, x), PySlice(raw, x + 1, y),
                              HexOfRaw(PySlice(raw, y + 1, y + 20)))])

\* tree_parse_one(raw, start): the new position and the leaf.  Neither find
\* result is checked, so -1 flows into the slices.
tree_parse_one(raw, start) ==
  LET x == Find(raw, SP, start)
      mode == PySlice(raw, start, x)
      y == Find(raw, NUL, x)
      path == PySlice(raw, x + 1, y)
      sha_raw == PySlice(raw, y + 1, y + 21)
      sha == HexOfRaw(sha_raw)
  IN IF Utf8Valid(path)
     THEN Ok([pos |-> y + 21, leaf |-> GitTreeLeaf(mode, path, sha)])
     ELSE Err("UnicodeDecodeError")

\* the while loop of tree_parse; a position seen before means the loop never
\* ends (it appends to items for ever)
RECURSIVE tree_parse_loop(_, _, _, _)
tree_parse_loop(raw, pos, items, seen) ==
  IF ~(pos < Len(raw)) THEN Ok(items)
  ELSE IF pos \in seen THEN Err("diverges")
  ELSE The({ IF ~r.ok THEN r
              ELSE tree_parse_loop(raw, r.val.pos, Append(items, r.val.leaf),
                                   seen \cup {pos}) :
              r \in {tree_parse_one(raw, pos)} })

tree_parse(raw) == tree_parse_loop(raw, 0, <<>>, {})

\* the sort key of tree_serialize
sort_key(leaf) ==
  IF StartsWith(leaf.mode, <<48, 52>>) THEN leaf.path \o <<SLASH>>
  ELSE leaf.path

\* list.sort(key=sort_key): stable, ascending
RECURSIVE InsertLeaf(_, _)
InsertLeaf(sorted, leaf) ==
  IF sorted = <<>> THEN <<leaf>>
  ELSE IF LexLess(sort_key(leaf), sort_key(Head(sorted)))
       THEN <<leaf>> \o sorted
  ELSE <<Head(sorted)>> \o InsertLeaf(Tail(sorted), leaf)

RECURSIVE SortLeaves(_)
SortLeaves(items) ==
  IF items = <<>> THEN <<>>
  ELSE InsertLeaf(SortLeaves(SubSeq(items, 1, Len(items) - 1)),
                  items[Len(items)])

RECURSIVE EncodeLeaves(_)
EncodeLeaves(items) ==
  IF items = <<>> THEN Ok(<<>>)
  ELSE LET leaf == Head(items)
           raw == RawOfHex(leaf.sha)
           rest == EncodeLeaves(Tail(items))
       IN IF ~raw.ok THEN raw
          ELSE IF ~rest.ok THEN rest
          ELSE Ok(leaf.mode \o <<SP>> \o leaf.path \o <<NUL>> \o raw.val \o rest.val)

\* tree_serialize(tree_obj): the bytes (or the exception of int(sha, 16) /
\* to_bytes); tree_obj.items is left sorted in either case
tree_serialize(items) == EncodeLeaves(SortLeaves(items))

\* ------------------------------------------------------------------------
\* KVLM codec (objects.py)
\* ------------------------------------------------------------------------
\* The OrderedDict of kvlm_parse is a sequence of entries in insertion order.
\* An entry holds a scalar (islist = FALSE, vals = <<v>>) or a list
\* (islist = TRUE).  The key None of the message is NoneKey.
NoneKey == <<-1>>

Scalar(k, v) == [key |-> k, islist |-> FALSE, vals |-> <<v>>]
List(k, vs) == [key |-> k, islist |-> TRUE, vals |-> vs]

\* index of key k in dict d, 0 when absent
DictIndex(d, k) ==
  IF \E i \in 1..Len(d) : d[i].key = k
  THEN CHOOSE i \in 1..Len(d) : d[i].key = k
  ELSE 0

\* the "Save in dict" step of kvlm_parse
DictAdd(d, k, v) ==
  LET i == DictIndex(d, k)
  IN IF i = 0 THEN Append(d, Scalar(k, v))
     ELSE [d EXCEPT ![i] = List(k, Append(d[i].vals, v))]

\* dct[None] = v
DictSetMessage(d, v) ==
  LET i == DictIndex(d, NoneKey)
  IN IF i = 0 THEN Append(d, Scalar(NoneKey, v))
     ELSE [d EXCEPT ![i] = Scalar(NoneKey, v)]

\* the "while True" loop that looks for the end of a value: the newline that
\* is not followed by a space.  raw[end+1] raises IndexError past the end; a
\* find result of -1 restarts the scan at 0 and can loop for ever.
RECURSIVE value_end(_, _, _)
value_end(raw, end, seen) ==
  LET e == Find(raw, NL, end + 1)
  IN IF e + 1 >= Len(raw) THEN Err("IndexError")
     ELSE IF raw[e + 2] # SP THEN Ok(e)
     ELSE IF e \in seen THEN Err("diverges")
     ELSE value_end(raw, e, seen \cup {e})

\* kvlm_parse(raw, start, dct); a start seen before recurses for ever
RECURSIVE kvlm_parse_from(_, _, _, _)
kvlm_parse_from(raw, start, dct, seen) ==
  LET spc == Find(raw, SP, start)
      nl == Find(raw, NL, start)
  IN IF (spc < 0) \/ (nl < spc)
     THEN Ok(DictSetMessage(dct, PySliceFrom(raw, start + 1)))
     ELSE IF start \in seen THEN Err("RecursionError")
     ELSE The({ IF ~e.ok THEN e
                 ELSE The({ kvlm_parse_from(raw, e.val + 1, d, seen \cup {start}) :
                            d \in {DictAdd(dct, PySlice(raw, start, spc),
                                           DropContinuation(PySlice(raw, spc + 1, e.val)))} }) :
                 e \in {value_end(raw, start, {})} })

kvlm_parse(raw) == kvlm_parse_from(raw, 0, <<>>, {})

RECURSIVE EncodeValues(_, _)
EncodeValues(k, vs) ==
  IF vs = <<>> THEN <<>>
  ELSE k \o <<SP>> \o AddContinuation(Head(vs)) \o <<NL>> \o EncodeValues(k, Tail(vs))

RECURSIVE EncodeHeaders(_)
EncodeHeaders(d) ==
  IF d = <<>> THEN <<>>
  ELSE (IF Head(d).key = NoneKey THEN <<>>
        ELSE EncodeValues(Head(d).key, Head(d).vals))
       \o EncodeHeaders(Tail(d))

\* a message that is never written
MessageDropped(d) == <<>>

\* kvlm.get(None), b'' when it is absent
Message(d) ==
  LET i == DictIndex(d, NoneKey)
  IN IF i = 0 THEN <<>> ELSE d[i].vals[1]

\* kvlm_serialize without the blank line between the headers and the message
kvlm_serialize_unseparated(d) == EncodeHeaders(d) \o Message(d)

\* kvlm_serialize(kvlm)
kvlm_serialize(d) == EncodeHeaders(d) \o <<NL>> \o Message(d)

\* ------------------------------------------------------------------------
\* Index codec (index.py)
\* ------------------------------------------------------------------------
NAME_MASK == 4095

\* b"DIRC"
DIRC == <<68, 73, 82, 67>>

RECURSIVE Digits256(_, _)
Digits256(n, w) ==
  IF w = 0 THEN <<>> ELSE Append(Digits256(n \div 256, w - 1), n % 256)

RECURSIVE Fits(_, _)
Fits(n, w) == IF w = 0 THEN n = 0 ELSE Fits(n \div 256, w - 1)

\* n.to_bytes(w, "big")
ToBytes(n, w) ==
  IF n < 0 \/ ~Fits(n, w) THEN Err("OverflowError") ELSE Ok(Digits256(n, w))

\* int.from_bytes(b, "big")
RECURSIVE FromBytes(_)
FromBytes(b) ==
  IF b = <<>> THEN 0
  ELSE FromBytes(SubSeq(b, 1, Len(b) - 1)) * 256 + b[Len(b)]

\* concatenation of byte-string results, the first exception wins
RECURSIVE Concat(_)
Concat(parts) ==
  IF parts = <<>> THEN Ok(<<>>)
  ELSE IF ~Head(parts).ok THEN Head(parts)
  ELSE LET rest == Concat(Tail(parts))
       IN IF ~rest.ok THEN rest ELSE Ok(Head(parts).val \o rest.val)

GitIndexEntry(ctime, mtime, dev, ino, mode_type, mode_perms, uid, gid, fsize, sha, flag_assume_valid, flag_stage, name) ==
  [ctime |-> ctime, mtime |-> mtime, dev |-> dev, ino |-> ino,
   mode_type |-> mode_type, mode_perms |-> mode_perms, uid |-> uid,
   gid |-> gid, fsize |-> fsize, sha |-> sha,
   flag_assume_valid |-> flag_assume_valid, flag_stage |-> flag_stage,
   name |-> name]

GitIndex(version, entries) == [version |-> version, entries |-> entries]

\* the bytes index_write appends to body for one entry, before the padding
EntryBytes(e) ==
  LET mode == (e.mode_type % 16) * 4096 + (e.mode_perms % 4096)
      nlen == IF Len(e.name) > NAME_MASK THEN NAME_MASK ELSE Len(e.name)
      flags == (IF e.flag_assume_valid THEN 32768 ELSE 0)
               + (e.flag_stage % 4) * 4096 + nlen
  IN Concat(<<ToBytes(e.ctime[1], 4), ToBytes(e.ctime[2], 4),
              ToBytes(e.mtime[1], 4), ToBytes(e.mtime[2], 4),
              ToBytes(e.dev, 4), ToBytes(e.ino, 4), ToBytes(mode, 4),
              ToBytes(e.uid, 4), ToBytes(e.gid, 4), ToBytes(e.fsize, 4),
              RawOfHex(e.sha), ToBytes(flags, 2), Ok(e.name), Ok(<<NUL>>)>>)

\* "while len(body) % 8 != 0: body += b'\x00'"
PadBody(body) == body \o Zeros((8 - (Len(body) % 8)) % 8)

\* the for loop of index_write over index.entries
RECURSIVE index_body(_, _)
index_body(entries, body) ==
  IF entries = <<>> THEN Ok(body)
  ELSE LET b == EntryBytes(Head(entries))
       IN IF ~b.ok THEN b
          ELSE index_body(Tail(entries), PadBody(body \o b.val))

\* index_write(repo, index): the bytes written to the index file, or the
\* exception raised before the file is opened
index_write(index) ==
  Concat(<<Ok(DIRC), ToBytes(index.version, 4), ToBytes(Len(index.entries), 4),
           index_body(index.entries, <<>>)>>)

\* 8 * ceil(idx / 8)
Align8(idx) == 8 * ((idx + 7) \div 8)

\* one iteration of the for loop of index_read: the entry and the new idx
index_read_entry(raw, idx) ==
  LET field(a, b) == FromBytes(PySlice(raw, idx + a, idx + b))
      mode == field(24, 28)
      flags == field(60, 62)
      name_len == flags % 4096
      start == idx + 62
      null_idx == Find(raw, NUL, start)
      name_bytes == IF name_len < NAME_MASK
                    THEN PySlice(raw, start, start + name_len)
                    ELSE PySlice(raw, start, null_idx)
      after == IF name_len < NAME_MASK THEN start + name_len + 1
               ELSE null_idx + 1
  IN IF ~Utf8Valid(name_bytes) THEN Err("UnicodeDecodeError")
     ELSE Ok([idx |-> Align8(after),
              entry |-> GitIndexEntry(
                <<field(0, 4), field(4, 8)>>, <<field(8, 12), field(12, 16)>>,
                field(16, 20), field(20, 24),
                (mode \div 4096) % 16, mode % 4096,
                field(28, 32), field(32, 36), field(36, 40),
                HexOfRaw(PySlice(raw, idx + 40, idx + 60)),
                (flags \div 32768) % 2 = 1, (flags \div 4096) % 4,
                name_bytes)])

RECURSIVE index_read_loop(_, _, _, _)
index_read_loop(raw, idx, n, entries) ==
  IF n = 0 THEN Ok(entries)
  ELSE The({ IF ~r.ok THEN r
              ELSE index_read_loop(raw, r.val.idx, n - 1, Append(entries, r.val.entry)) :
              r \in {index_read_entry(raw, idx)} })

\* index_read on the bytes of an existing index file
index_parse(raw) ==
  IF PySlice(raw, 0, 4) # DIRC THEN Err("Invalid index signature")
  ELSE IF FromBytes(PySlice(raw, 4, 8)) # 2
       THEN Err("Only index version 2 is supported.")
  ELSE LET r == index_read_loop(raw, 12, FromBytes(PySlice(raw, 8, 12)), <<>>)
       IN IF ~r.ok THEN r ELSE Ok(GitIndex(2, r.val))

\* ------------------------------------------------------------------------
\* The object classes (objects.py) and the codec experiments
\* ------------------------------------------------------------------------
fmt_blob == <<98, 108, 111, 98>>
fmt_tree == <<116, 114, 101, 101>>
fmt_commit == <<99, 111, 109, 109, 105, 116>>
fmt_tag == <<116, 97, 103>>

\* GitObject.__init__(data) -> deserialize(data), per class; "index" stands
\* for index_read of a file holding data
deserialize(fmt, data) ==
  CASE fmt = "tree" -> tree_parse(data)
    [] fmt \in {"commit", "tag"} -> kvlm_parse(data)
    [] fmt = "blob" -> Ok(data)
    [] fmt = "index" -> index_parse(data)

\* serialize(), per class; "index" stands for the bytes index_write writes
serialize(fmt, value) ==
  CASE fmt = "tree" -> tree_serialize(value)
    [] fmt \in {"commit", "tag"} -> Ok(kvlm_serialize(value))
    [] fmt = "blob" -> Ok(value)
    [] fmt = "index" -> index_write(value)

\* codec is the codec experiment under way; dirs and files are the disk
\* (see "The repository on disk"); ret
\* is the last command with its arguments and its outcome; procs holds the
\* position of every process that is part-way through a write
VARIABLES codec, dirs, files, ret, procs

vars == <<codec, dirs, files, ret, procs>>

NoFiles == [p \in {} |-> <<>>]

NoCommand == [op |-> "none"]

\* no process is running: the commands are run one at a time
NoProcesses == <<>>

\* no repository is involved in a codec experiment
NoRepository ==
  /\ dirs = {}
  /\ files = NoFiles
  /\ ret = NoCommand
  /\ procs = NoProcesses

\* --- inputs of the tree experiments
MODE_FILE == <<49, 48, 48, 54, 52, 52>>
MODE_DIR5 == <<52, 48, 48, 48, 48>>
MODE_DIR6 == <<48, 52, 48, 48, 48, 48>>

NameA == <<97>>
NameADot == <<97, 46>>

ShaOne == HexOfRaw(<<1>>)
ShaSpace == HexOfRaw(<<SP>>)
ShaShort == <<49>>

LeafPool ==
  { GitTreeLeaf(m, n, h) : m \in {MODE_FILE, MODE_DIR5, MODE_DIR6},
                           n \in {NameA, NameADot},
                           h \in {ShaOne, ShaSpace} }
  \cup { GitTreeLeaf(MODE_FILE, NameA, ShaShort) }

\* sequences of at most n elements of S
RECURSIVE SeqsUpTo(_, _)
SeqsUpTo(S, n) ==
  IF n = 0 THEN { <<>> }
  ELSE LET shorter == SeqsUpTo(S, n - 1)
       IN shorter \cup { Append(q, x) : q \in { r \in shorter : Len(r) = n - 1 },
                                        x \in S }
\* sequences without repetition of at most n elements of S
SeqsNoRep(S, n) ==
  { q \in SeqsUpTo(S, n) : \A i, j \in 1..Len(q) : i # j => q[i] # q[j] }
\* --- canonical tree byte strings: records in git's order, a directory
\* (mode 40000, with or without the leading zero) sorting as name + "/"
IsDirMode(mode) == mode \in {MODE_DIR5, MODE_DIR6}

CanonicalKey(leaf) ==
  IF IsDirMode(leaf.mode) THEN leaf.path \o <<SLASH>> ELSE leaf.path

CanonicalRecord(leaf) ==
  leaf.mode \o <<SP>> \o leaf.path \o <<NUL>> \o RawOfHex(leaf.sha).val

RECURSIVE CanonicalBytes(_)
CanonicalBytes(leaves) ==
  IF leaves = {} THEN <<>>
  ELSE LET first == CHOOSE l \in leaves :
                      \A m \in leaves \ {l} : LexLess(CanonicalKey(l), CanonicalKey(m))
       IN CanonicalRecord(first) \o CanonicalBytes(leaves \ {first})

CanonicalTrees ==
  { CanonicalBytes(L) :
      L \in { M \in SUBSET { l \in LeafPool : Len(l.sha) = ShaHexLen } :
                /\ Cardinality(M) <= MaxLeaves
                /\ \A l, m \in M : l # m => l.path # m.path } }

\* --- well-formed KVLM byte strings: header lines "key value" whose value
\* continues on lines that begin with a space, one blank line, the message
KeyK == <<107>>
KeyJ == <<106>>

ValuePool == { <<118>>, <<118, NL, 119>>, <<>> }
MessagePool == { <<>>, <<109>>, <<109, NL, SP, 110, SP, 107>> }

HeaderLine(key, value) == key \o <<SP>> \o AddContinuation(value) \o <<NL>>

RECURSIVE HeaderLines(_)
HeaderLines(lines) ==
  IF lines = <<>> THEN <<>>
  ELSE HeaderLine(Head(lines)[1], Head(lines)[2]) \o HeaderLines(Tail(lines))

WellFormedKvlm(lines, msg) == HeaderLines(lines) \o <<NL>> \o msg

WellFormedKvlms ==
  { WellFormedKvlm(lines, msg) :
      lines \in SeqsUpTo({KeyK, KeyJ} \X ValuePool, MaxHeaders),
      msg \in MessagePool }

\* the lines of every key are adjacent
Adjacent(lines) ==
  \A i, j \in 1..Len(lines) :
    (i < j /\ lines[i][1] = lines[j][1]) =>
      \A m \in i..j : lines[m][1] = lines[i][1]

\* --- arbitrary short byte strings
RawStrings(alphabet) == SeqsUpTo(alphabet, MaxRawLen)

\* --- KVLM values: distinct keys, each mapped to a scalar or to a list of one
\* or two values, with the message last when there is one; the value without
\* any key is the kvlm of a freshly constructed GitCommit
KvlmValuePool == { <<118>>, <<118, NL, 119>> }

KvlmEntries(k) ==
  { Scalar(k, v) : v \in KvlmValuePool }
  \cup { List(k, vs) : vs \in SeqsUpTo(KvlmValuePool, 2) \ { <<>> } }

KvlmHeaders ==
  { <<>> }
  \cup { <<e>> : e \in KvlmEntries(KeyK) \cup KvlmEntries(KeyJ) }
  \cup { <<e, f>> : e \in KvlmEntries(KeyK), f \in KvlmEntries(KeyJ) }
  \cup { <<f, e>> : e \in KvlmEntries(KeyK), f \in KvlmEntries(KeyJ) }

KvlmValues ==
  KvlmHeaders
  \cup { Append(h, Scalar(NoneKey, m)) : h \in KvlmHeaders, m \in { <<>>, <<109>> } }
\* --- indexes: entries with names of 1 to 4096 bytes and assorted flags
MaxEntries == 2

NameOfLen(n) == [i \in 1..n |-> 97]

st_entry(n, mode_type, flag_stage, flag_assume_valid) ==
  GitIndexEntry(<<1, 2>>, <<3, 4>>, 5, 6, mode_type, 420, 7, 8, 9, ShaOne,
                flag_assume_valid, flag_stage, NameOfLen(n))

IndexEntryPool ==
  { st_entry(n, 8, 0, FALSE) : n \in {1, 5, 4094, 4095, 4096} }
  \cup { st_entry(1, 10, 2, TRUE), st_entry(7, 14, 3, FALSE) }

IndexValues == { GitIndex(2, es) : es \in SeqsUpTo(IndexEntryPool, MaxEntries) }

\* ------------------------------------------------------------------------
\* Codec experiments: an input, then serialize / deserialize applied in turn.
\* codec.chain[1] is the input, codec.chain[i+1] the result of the operation
\* applied to codec.chain[i]; an exception ends the chain.
\* ------------------------------------------------------------------------
Input(fmt, start, src, x) ==
  [fmt |-> fmt, start |-> start, src |-> src, chain |-> <<Ok(x)>>]

\* chain[i] is a byte string (and not an object value)
IsBytesAt(i) == (codec.start = "bytes") = (i % 2 = 1)

CanStep ==
  /\ Len(codec.chain) < MaxChain
  /\ codec.chain[Len(codec.chain)].ok

Serialize ==
  /\ CanStep
  /\ ~IsBytesAt(Len(codec.chain))
  /\ codec' = [codec EXCEPT !.chain =
                 Append(@, serialize(codec.fmt, codec.chain[Len(codec.chain)].val))]
  /\ UNCHANGED <<dirs, files, ret, procs>>

Deserialize ==
  /\ CanStep
  /\ IsBytesAt(Len(codec.chain))
  /\ codec' = [codec EXCEPT !.chain =
                 Append(@, deserialize(codec.fmt, codec.chain[Len(codec.chain)].val))]
  /\ UNCHANGED <<dirs, files, ret, procs>>

NextCodec == Serialize \/ Deserialize

\* a byte string longer than an id, without any delimiter
LongRaw == [i \in 1..ShaRawLen + 1 |-> 97]

TreeInputs ==
  { Input("tree", "value", "items", q) : q \in SeqsNoRep(LeafPool, MaxLeaves) }
  \cup { Input("tree", "bytes", "canonical", b) : b \in CanonicalTrees }
  \cup { Input("tree", "bytes", "raw", b) : b \in RawStrings({SP, NUL, 97}) }
  \cup { Input("tree", "bytes", "raw", LongRaw) }

KvlmInputs ==
  { Input("commit", "bytes", IF Adjacent(lines) THEN "adjacent" ELSE "interleaved",
          WellFormedKvlm(lines, msg)) :
      lines \in SeqsUpTo({KeyK, KeyJ} \X ValuePool, MaxHeaders),
      msg \in MessagePool }
  \cup { Input("commit", "bytes", "raw", b) : b \in RawStrings({SP, NL, 107}) }

ObjectInputs ==
  { Input("tree", "value", "items", q) : q \in SeqsNoRep(LeafPool, MaxLeaves) }
  \cup { Input(f, "value", "kvlm", d) : f \in {"commit", "tag"}, d \in KvlmValues }
  \cup { Input("blob", "value", "blobdata", b) : b \in RawStrings({SP, NUL, 97}) }

\* the 4-byte mode field of an index entry: two reserved bytes, then the
\* type nibble and the permission bits
ModePool == { <<0, 0, 129, 164>>, <<0, 1, 129, 164>>, <<1, 0, 129, 164>>, <<0, 0, 65, 164>>, <<0, 0, 1, 164>> }

\* the mode checks of the reference index_read: reserved bytes zero and the
\* type one of regular file, symlink, gitlink
WellFormedMode(m) == m[1] = 0 /\ m[2] = 0 /\ (m[3] \div 16) \in {8, 10, 14}

\* the index file of one entry, its mode field (bytes 24..28 of the entry
\* that starts at offset 12) overwritten with m
ModeImage(n, m) ==
  LET raw == index_write(GitIndex(2, <<st_entry(n, 8, 0, FALSE)>>)).val
  IN [i \in 1..Len(raw) |-> IF i \in (12 + 24 + 1)..(12 + 28) THEN m[i - (12 + 24)] ELSE raw[i]]

IndexInputs ==
  { Input("index", "value", "index", i) : i \in IndexValues }
  \cup { Input("index", "bytes", "mode", ModeImage(n, m)) : n \in {1, 5}, m \in ModePool }

InitTree == codec \in TreeInputs /\ NoRepository
InitKvlm == codec \in KvlmInputs /\ NoRepository
InitObjects == codec \in ObjectInputs /\ NoRepository
InitIndex == codec \in IndexInputs /\ NoRepository

SpecTree == InitTree /\ [][NextCodec]_vars
SpecKvlm == InitKvlm /\ [][NextCodec]_vars
SpecObjects == InitObjects /\ [][NextCodec]_vars
SpecIndex == InitIndex /\ [][NextCodec]_vars

\* permutations of a sequence
Orders(q) ==
  { [i \in 1..Len(q) |-> q[f[i]]] :
      f \in { g \in [1..Len(q) -> 1..Len(q)] :
                \A i, j \in 1..Len(q) : i # j => g[i] # g[j] } }

\* C5: tree_serialize yields the same bytes for every order of the same
\* entries.
C5_OrderIndependent ==
  (codec.fmt = "tree" /\ codec.start = "value" /\ Len(codec.chain) >= 2) =>
    \A q \in Orders(codec.chain[1].val) : tree_serialize(q) = codec.chain[2]

\* C6: re-encoding the decoding of a canonical tree byte string reproduces it.
C6_CanonicalRoundTrip ==
  (codec.fmt = "tree" /\ codec.src = "canonical" /\ Len(codec.chain) >= 3) =>
    codec.chain[3] = codec.chain[1]

\* C7: kvlm_serialize(kvlm_parse(bytes)) = bytes for every well-formed KVLM
\* byte string, the lines of a repeated key adjacent or not.
C7_RoundTripAll ==
  (codec.fmt = "commit" /\ codec.src \in {"adjacent", "interleaved"}
     /\ Len(codec.chain) >= 3) =>
    codec.chain[3] = codec.chain[1]

\* C7 as amended: the round trip holds when the lines of every repeated key
\* are adjacent.
C7_RoundTripAdjacent ==
  (codec.fmt = "commit" /\ codec.src = "adjacent" /\ Len(codec.chain) >= 3) =>
    codec.chain[3] = codec.chain[1]

\* an adjacent input with a repeated key has made the round trip
C7_Witness ==
  /\ codec.fmt = "commit"
  /\ codec.src = "adjacent"
  /\ Len(codec.chain) >= 3
  /\ \E i \in 1..Len(codec.chain[2].val) : codec.chain[2].val[i].islist
  /\ codec.chain[3] = codec.chain[1]

IsCanonicalLeaf(leaf) ==
  /\ Len(leaf.sha) = ShaHexLen
  /\ \A i \in 1..Len(leaf.sha) : IsHexChar(leaf.sha[i]) /\ leaf.sha[i] \notin 65..70
  /\ \A i \in 1..Len(leaf.mode) : leaf.mode[i] # SP
  /\ \A i \in 1..Len(leaf.path) : leaf.path[i] # NUL

IsCanonicalValue(fmt, v) ==
  CASE fmt = "tree" ->
         /\ SortLeaves(v) = v
         /\ \A i \in 1..Len(v) : IsCanonicalLeaf(v[i])
    [] fmt \in {"commit", "tag"} ->
         /\ v # <<>>
         /\ v[Len(v)].key = NoneKey
         /\ \A i \in 1..Len(v) : v[i].islist => Len(v[i].vals) >= 2
    [] OTHER -> TRUE

C9_ParseSerializeParse ==
  (codec.fmt = "commit" /\ codec.start = "bytes" /\ Len(codec.chain) >= 2
     /\ codec.chain[2].ok) =>
    /\ Len(codec.chain) >= 3 => codec.chain[3].ok
    /\ Len(codec.chain) >= 4 => codec.chain[4] = codec.chain[2]

\* a parsed KVLM with a repeated key and a message of several lines has been
\* serialized and parsed again
C9_Witness ==
  /\ codec.fmt = "commit"
  /\ codec.start = "bytes"
  /\ Len(codec.chain) >= 4
  /\ \E i \in 1..Len(codec.chain[2].val) : codec.chain[2].val[i].islist
  /\ \E j \in 1..Len(Message(codec.chain[2].val)) : Message(codec.chain[2].val)[j] = NL
  /\ codec.chain[4] = codec.chain[2]

\* C10: index_read after index_write returns the index that was written.
C10_IndexRoundTrip ==
  (codec.fmt = "index" /\ Len(codec.chain) >= 3) =>
    codec.chain[3] = codec.chain[1]

\* C22: a tree that tree_serialize has written holds no two entries with
\* the same name.
C22_NoDuplicateNames ==
  (/\ codec.fmt = "tree" /\ codec.start = "value" /\ Len(codec.chain) >= 3
   /\ codec.chain[3].ok) =>
    \A i, j \in 1..Len(codec.chain[3].val) :
      i # j => codec.chain[3].val[i].path # codec.chain[3].val[j].path

\* the sort key of the reference tree_serialize
tree_leaf_sort_key(leaf) ==
  IF StartsWith(leaf.mode, <<49, 48>>) THEN leaf.path ELSE leaf.path \o <<SLASH>>

\* C23: tree_serialize writes the entries in ascending order of the
\* reference sort key: the name when the mode begins with "10", the name
\* followed by "/" for every other mode.
C23_ReferenceOrder ==
  (/\ codec.fmt = "tree" /\ codec.start = "value" /\ Len(codec.chain) >= 3
   /\ codec.chain[3].ok) =>
    \A i, j \in 1..Len(codec.chain[3].val) :
      i < j => ~LexLess(tree_leaf_sort_key(codec.chain[3].val[j]),
                        tree_leaf_sort_key(codec.chain[3].val[i]))

\* C24: tree_parse returns every entry's mode as a 6-character string; a
\* mode stored in 5 characters is padded to 6 when read.
C24_ModeSixChars ==
  (/\ codec.fmt = "tree" /\ codec.src = "canonical" /\ Len(codec.chain) >= 2
   /\ codec.chain[2].ok) =>
    \A i \in 1..Len(codec.chain[2].val) : Len(codec.chain[2].val[i].mode) = 6

\* the records from pos on are complete: each has the space after the mode,
\* the NUL after the name and 20 id bytes
RECURSIVE CompleteRecords(_, _)
CompleteRecords(raw, pos) ==
  \/ pos = Len(raw)
  \/ /\ pos < Len(raw)
     /\ Find(raw, SP, pos) >= 0
     /\ Find(raw, NUL, Find(raw, SP, pos)) >= 0
     /\ Find(raw, NUL, Find(raw, SP, pos)) + 21 <= Len(raw)
     /\ CompleteRecords(raw, Find(raw, NUL, Find(raw, SP, pos)) + 21)

\* C25: tree_parse terminates on every byte string, and on a byte string
\* with an incomplete record it fails with a parse error and returns no list
\* of entries.
C25_ParseErrors ==
  (codec.fmt = "tree" /\ codec.start = "bytes" /\ Len(codec.chain) >= 2) =>
    /\ ~codec.chain[2].ok => codec.chain[2].err # "diverges"
    /\ ~CompleteRecords(codec.chain[1].val, 0) => ~codec.chain[2].ok

\* C11: index_read rejects an index file with an entry whose mode field has
\* non-zero reserved bits or a type other than regular file, symlink or
\* gitlink; it returns no index value for such a file.
C11_RejectsBadMode ==
  (/\ codec.fmt = "index" /\ codec.src = "mode" /\ Len(codec.chain) >= 2
   /\ ~WellFormedMode(PySlice(codec.chain[1].val, 12 + 24, 12 + 28)))
    => ~codec.chain[2].ok

\* ------------------------------------------------------------------------
\* The repository on disk (repository.py)
\* ------------------------------------------------------------------------
\* Paths are byte strings relative to the worktree; the gitdir is ".git".
\* dirs is the set of directories, files maps the path of every regular
\* file to its bytes.
None == <<-1>>

GITDIR == <<46, 103, 105, 116>>
OBJECTS == <<111, 98, 106, 101, 99, 116, 115>>
INDEX == <<105, 110, 100, 101, 120>>
HEAD == <<72, 69, 65, 68>>

\* os.path.join of non-empty relative components
RECURSIVE JoinPath(_)
JoinPath(parts) ==
  IF Len(parts) = 1 THEN parts[1]
  ELSE parts[1] \o <<SLASH>> \o JoinPath(Tail(parts))

\* GitRepository.repo_path(*path)
repo_path(parts) == JoinPath(<<GITDIR>> \o parts)

\* os.path.dirname / os.path.basename
LastSlash(p) ==
  IF \E i \in 1..Len(p) : p[i] = SLASH
  THEN CHOOSE i \in 1..Len(p) : p[i] = SLASH /\ \A j \in (i + 1)..Len(p) : p[j] # SLASH
  ELSE 0

RECURSIVE RStripSlash(_)
RStripSlash(p) ==
  IF p # <<>> /\ p[Len(p)] = SLASH THEN RStripSlash(SubSeq(p, 1, Len(p) - 1)) ELSE p

dirname(p) ==
  LET head == SubSeq(p, 1, LastSlash(p))
  IN IF head # <<>> /\ \E i \in 1..Len(head) : head[i] # SLASH
     THEN RStripSlash(head) ELSE head

basename(p) == SubSeq(p, LastSlash(p) + 1, Len(p))

\* the directories os.makedirs(p) creates: p and its missing ancestors
RECURSIVE Ancestors(_)
Ancestors(p) == IF dirname(p) \in {<<>>, p} THEN {p} ELSE {p} \cup Ancestors(dirname(p))

IsFile(w, p) == p \in DOMAIN w.files
IsDir(w, p) == p \in w.dirs
Exists(w, p) == IsFile(w, p) \/ IsDir(w, p)

\* GitRepository.repo_dir(*path, mkdir): the directory path, None, or the
\* exception; w is the state of the disk
repo_dir(w, parts, mkdir) ==
  LET p == repo_path(parts)
  IN IF Exists(w, p)
     THEN [w |-> w, res |-> IF IsDir(w, p) THEN Ok(p) ELSE Err("Not a directory")]
     ELSE IF mkdir
          THEN IF \E a \in Ancestors(p) : IsFile(w, a)
               THEN [w |-> w, res |-> Err("NotADirectoryError")]
               ELSE [w |-> [w EXCEPT !.dirs = @ \cup Ancestors(p)], res |-> Ok(p)]
     ELSE [w |-> w, res |-> Ok(None)]

\* GitRepository.repo_file(*path, mkdir)
repo_file(w, parts, mkdir) ==
  LET d == repo_dir(w, SubSeq(parts, 1, Len(parts) - 1), mkdir)
  IN IF ~d.res.ok THEN d
     ELSE [w |-> d.w, res |-> IF d.res.val # None THEN Ok(repo_path(parts)) ELSE Ok(None)]

\* a write that ignores the position of the file object and appends
WriteAppend(content, pos, bytes) == content \o bytes

\* f.write(bytes) at position pos of a file that holds content; a position
\* past the end leaves a gap of zero bytes
WriteAt(content, pos, bytes) ==
  LET padded == IF Len(content) < pos THEN content \o Zeros(pos - Len(content)) ELSE content
  IN SubSeq(padded, 1, pos) \o bytes \o SubSeq(padded, pos + Len(bytes) + 1, Len(padded))

\* files with path p written (created or replaced)
WriteFile(w, p, data) ==
  [w EXCEPT !.files = [q \in DOMAIN @ \cup {p} |-> IF q = p THEN data ELSE @[q]]]

\* os.unlink(p)
Unlink(w, p) == [w EXCEPT !.files = [q \in DOMAIN @ \ {p} |-> @[q]]]

\* ------------------------------------------------------------------------
\* Hashing and compression (hashlib, zlib)
\* ------------------------------------------------------------------------
\* SHA-1 is modelled by a checksum of the bytes.  The digest is the parity of
\* the checksum, 16 zero bytes and the checksum in 3 bytes, so that some
\* digests share their first characters and their directory and some do not.
CHECKSUM_MODULUS == 16777213

\* the checksum of a byte string combines those of its two halves
RECURSIVE Checksum(_)
Checksum(s) ==
  IF s = <<>> THEN 7
  ELSE IF Len(s) = 1 THEN s[1] + 11
  ELSE LET half == Len(s) \div 2
       IN (Checksum(SubSeq(s, 1, half)) * 31
           + Checksum(SubSeq(s, half + 1, Len(s))) * 17 + Len(s)) % CHECKSUM_MODULUS

Digest(h) ==
  HexOfRaw(<<h % 2>> \o Zeros(ShaRawLen - 4)
           \o <<h \div 65536, (h \div 256) % 256, h % 256>>)

\* hashlib.sha1(full).hexdigest()
Sha1(full) == Digest(Checksum(full))

\* zlib.compress / zlib.decompress: a two-byte header and the stored bytes
ZLIB_HEADER == <<120, 156>>

Compress(data) == ZLIB_HEADER \o data

Decompress(z) ==
  IF StartsWith(z, ZLIB_HEADER) THEN Ok(SubSeq(z, 3, Len(z))) ELSE Err("zlib.error")

\* str(n).encode()
RECURSIVE Decimal(_)
Decimal(n) == IF n < 10 THEN <<48 + n>> ELSE Decimal(n \div 10) \o <<48 + (n % 10)>>

IsSpace(c) == c \in {9, 10, 11, 12, 13, 28, 29, 30, 31, SP}

RECURSIVE LStrip(_)
LStrip(s) == IF s # <<>> /\ IsSpace(Head(s)) THEN LStrip(Tail(s)) ELSE s

RECURSIVE RStrip(_)
RStrip(s) ==
  IF s # <<>> /\ IsSpace(s[Len(s)]) THEN RStrip(SubSeq(s, 1, Len(s) - 1)) ELSE s

\* s.strip()
Strip(s) == LStrip(RStrip(s))

RECURSIVE DigitsValue(_)
DigitsValue(d) ==
  IF d = <<>> THEN 0 ELSE DigitsValue(SubSeq(d, 1, Len(d) - 1)) * 10 + (d[Len(d)] - 48)

\* int(b.decode("ascii")): surrounding whitespace and a sign are accepted
ParseInt(b) ==
  LET t == Strip(b)
      signed == t # <<>> /\ t[1] \in {43, 45}
      d == IF signed THEN Tail(t) ELSE t
  IN IF \E i \in 1..Len(b) : b[i] >= 128 THEN Err("UnicodeDecodeError")
     ELSE IF d = <<>> \/ \E i \in 1..Len(d) : d[i] < 48 \/ d[i] > 57
          THEN Err("ValueError")
     ELSE Ok(IF signed /\ t[1] = 45 THEN 0 - DigitsValue(d) ELSE DigitsValue(d))

\* ------------------------------------------------------------------------
\* Object store (objects.py)
\* ------------------------------------------------------------------------
FmtBytes(fmt) ==
  CASE fmt = "blob" -> fmt_blob
    [] fmt = "tree" -> fmt_tree
    [] fmt = "commit" -> fmt_commit
    [] fmt = "tag" -> fmt_tag

\* obj.fmt + b' ' + str(len(data)).encode() + b'\x00' + data
Framed(fmt, data) == FmtBytes(fmt) \o <<SP>> \o Decimal(Len(data)) \o <<NUL>> \o data

ObjectParts(sha) == <<OBJECTS, PySlice(sha, 0, 2), PySliceFrom(sha, 2)>>

ObjectPath(sha) == repo_path(ObjectParts(sha))

\* object_write(obj, repo) for an object of class fmt holding value; store
\* is FALSE for repo=None.  res is the digest, wrote tells whether the file
\* was opened for writing.
object_write(w, fmt, value, store) ==
  The({ IF ~data.ok THEN [w |-> w, res |-> data, wrote |-> FALSE]
        ELSE The({
          IF ~store THEN [w |-> w, res |-> Ok(sha), wrote |-> FALSE]
          ELSE The({
            IF ~f.res.ok THEN [w |-> f.w, res |-> f.res, wrote |-> FALSE]
            ELSE IF Exists(f.w, f.res.val)
                 THEN [w |-> f.w, res |-> Ok(sha), wrote |-> FALSE]
            ELSE [w |-> WriteFile(f.w, f.res.val, Compress(Framed(fmt, data.val))),
                  res |-> Ok(sha), wrote |-> TRUE] :
            f \in {repo_file(w, ObjectParts(sha), TRUE)} }) :
          sha \in {Sha1(Framed(fmt, data.val))} }) :
        data \in {serialize(fmt, value)} })

NoObject == [fmt |-> "none", val |-> <<>>]

GitObject(fmt, value) == [fmt |-> fmt, val |-> value]

\* object_parse without the comparison of the declared size with the length
\* of the payload
object_parse_unchecked(raw) ==
  LET space == Find(raw, SP, 0)
      obj_type == PySlice(raw, 0, space)
      null == Find(raw, NUL, space)
      size == ParseInt(PySlice(raw, space + 1, null))
      content == PySliceFrom(raw, null + 1)
      fmt == CASE obj_type = fmt_commit -> "commit"
               [] obj_type = fmt_tree -> "tree"
               [] obj_type = fmt_tag -> "tag"
               [] obj_type = fmt_blob -> "blob"
               [] OTHER -> "unknown"
  IN IF ~size.ok THEN size
     ELSE IF fmt = "unknown" THEN Err("Unknown type")
     ELSE The({ IF ~v.ok THEN v ELSE Ok([fmt |-> fmt, val |-> v.val]) :
                v \in {deserialize(fmt, content)} })

\* the part of object_read that follows the decompression
object_parse(raw) ==
  LET space == Find(raw, SP, 0)
      obj_type == PySlice(raw, 0, space)
      null == Find(raw, NUL, space)
      size == ParseInt(PySlice(raw, space + 1, null))
      content == PySliceFrom(raw, null + 1)
      fmt == CASE obj_type = fmt_commit -> "commit"
               [] obj_type = fmt_tree -> "tree"
               [] obj_type = fmt_tag -> "tag"
               [] obj_type = fmt_blob -> "blob"
               [] OTHER -> "unknown"
  IN IF ~size.ok THEN size
     ELSE IF size.val # Len(content) THEN Err("Malformed object")
     ELSE IF fmt = "unknown"
          THEN IF \E i \in 1..Len(obj_type) : obj_type[i] >= 128
               THEN Err("UnicodeDecodeError") ELSE Err("Unknown type")
     ELSE The({ IF ~v.ok THEN v ELSE Ok(GitObject(fmt, v.val)) :
                v \in {deserialize(fmt, content)} })

\* object_read(repo, sha): the object, NoObject for None, or the exception
object_read(w, sha) ==
  LET f == repo_file(w, ObjectParts(sha), FALSE)
  IN IF ~f.res.ok THEN f.res
     ELSE IF f.res.val = None THEN Err("TypeError")
     ELSE IF ~IsFile(w, f.res.val) THEN Ok(NoObject)
     ELSE LET raw == Decompress(w.files[f.res.val])
          IN IF ~raw.ok THEN raw ELSE object_parse(raw.val)

\* ------------------------------------------------------------------------
\* References (refs.py)
\* ------------------------------------------------------------------------
REF_PREFIX == <<114, 101, 102, 58, 32>>
REFS_TAGS == <<114, 101, 102, 115, 47, 116, 97, 103, 115, 47>>
REFS_HEADS == <<114, 101, 102, 115, 47, 104, 101, 97, 100, 115, 47>>
REFS_HEADS_MASTER == <<114, 101, 102, 115, 47, 104, 101, 97, 100, 115, 47, 109, 97, 115, 116, 101, 114>>

\* a ref_resolve that reads the target of an indirection without following
\* it any further
ref_resolve_one_hop(w, ref, seen) ==
  LET path == repo_path(<<ref>>)
      data == Strip(w.files[path])
      target == repo_path(<<PySliceFrom(data, 5)>>)
  IN IF ~IsDir(w, GITDIR) \/ ~IsFile(w, path) THEN Ok(None)
     ELSE IF ~StartsWith(data, REF_PREFIX) THEN Ok(data)
     ELSE IF ~IsFile(w, target) THEN Ok(None)
     ELSE Ok(Strip(w.files[target]))

\* ref_resolve(repo, ref): the id, None, or the exception; a ref met twice
\* on the way means the recursion never ends
RECURSIVE ref_resolve_from(_, _, _)
ref_resolve_from(w, ref, seen) ==
  LET path == repo_path(<<ref>>)
  IN IF ~IsDir(w, GITDIR) \/ ~IsFile(w, path) THEN Ok(None)
     ELSE LET data == Strip(w.files[path])
          IN IF ~Utf8Valid(w.files[path]) THEN Err("UnicodeDecodeError")
             ELSE IF StartsWith(data, REF_PREFIX)
                  THEN IF ref \in seen THEN Err("RecursionError")
                       ELSE ref_resolve_from(w, PySliceFrom(data, 5), seen \cup {ref})
             ELSE Ok(data)

ref_resolve(w, ref) == ref_resolve_from(w, ref, {})

\* a result that "if x:" takes for true
Truthy(x) == x # None /\ x # <<>>

\* ref_create(repo, ref_name, sha)
ref_create(w, ref_name, sha) ==
  LET f == repo_file(w, <<ref_name>>, TRUE)
  IN IF ~f.res.ok THEN f
     ELSE IF ~IsDir(f.w, dirname(f.res.val)) \/ IsDir(f.w, f.res.val)
          THEN [w |-> f.w, res |-> Err("OSError")]
     ELSE [w |-> WriteFile(f.w, f.res.val, sha \o <<NL>>), res |-> Ok(None)]

\* ------------------------------------------------------------------------
\* Name resolution (objects.py)
\* ------------------------------------------------------------------------
Lower(s) == [i \in 1..Len(s) |-> IF s[i] >= 65 /\ s[i] <= 90 THEN s[i] + 32 ELSE s[i]]

\* re.compile(r"^[0-9A-Fa-f]{4,40}$").match(name); "$" also matches before a
\* final newline
hash_re(name) ==
  LET body == IF name # <<>> /\ name[Len(name)] = NL
              THEN SubSeq(name, 1, Len(name) - 1) ELSE name
  IN /\ Len(body) >= 4
     /\ Len(body) <= ShaHexLen
     /\ \A i \in 1..Len(body) : IsHexChar(body[i])

\* os.listdir(d): the names of the files in directory d
ListDir(w, d) ==
  { basename(p) : p \in { q \in DOMAIN w.files : dirname(q) = d } }
  \cup { basename(p) : p \in { q \in w.dirs : dirname(q) = d /\ q # d } }

\* object_resolve(repo, name): the set of candidates, or the exception
object_resolve(w, name0) ==
  LET stripped == Strip(name0)
      ishex == hash_re(stripped)
      name == IF ishex THEN Lower(stripped) ELSE stripped
      subdir == PySlice(name, 0, 2)
      rest == PySliceFrom(name, 2)
      obj_dir == repo_dir(w, <<OBJECTS, subdir>>, FALSE)
      matches == IF ishex /\ obj_dir.res.ok /\ obj_dir.res.val # None
                 THEN { subdir \o f : f \in { g \in ListDir(w, obj_dir.res.val) :
                                                StartsWith(g, rest) } }
                 ELSE {}
      head_sha == ref_resolve(w, HEAD)
      tag_sha == ref_resolve(w, REFS_TAGS \o name)
      branch_sha == ref_resolve(w, REFS_HEADS \o name)
  IN IF stripped = HEAD
     THEN IF ~head_sha.ok THEN head_sha
          ELSE Ok(IF Truthy(head_sha.val) THEN {head_sha.val} ELSE {})
     ELSE IF ishex /\ ~obj_dir.res.ok THEN obj_dir.res
     ELSE IF ~tag_sha.ok THEN tag_sha
     ELSE IF ~branch_sha.ok THEN branch_sha
     ELSE Ok(matches
             \cup (IF Truthy(tag_sha.val) THEN {tag_sha.val} ELSE {})
             \cup (IF Truthy(branch_sha.val) THEN {branch_sha.val} ELSE {}))

KEY_OBJECT == <<111, 98, 106, 101, 99, 116>>
KEY_TREE == <<116, 114, 101, 101>>
KEY_PARENT == <<112, 97, 114, 101, 110, 116>>
KEY_AUTHOR == <<97, 117, 116, 104, 111, 114>>
KEY_COMMITTER == <<99, 111, 109, 109, 105, 116, 116, 101, 114>>

\* kvlm[key].decode("ascii"): KeyError when absent, AttributeError on a list
KvlmField(kvlm, key) ==
  LET i == DictIndex(kvlm, key)
  IN IF i = 0 THEN Err("KeyError")
     ELSE IF kvlm[i].islist THEN Err("AttributeError")
     ELSE IF \E j \in 1..Len(kvlm[i].vals[1]) : kvlm[i].vals[1][j] >= 128
          THEN Err("UnicodeDecodeError")
     ELSE Ok(kvlm[i].vals[1])

\* a loop that returns the id a tag or commit names without reading it
object_follow_one_step(w, sha, fmt, follow, seen) ==
  The({ IF ~obj.ok THEN obj
        ELSE IF obj.val = NoObject THEN Err("AttributeError")
        ELSE IF obj.val.fmt = fmt THEN Ok(sha)
        ELSE IF ~follow THEN Ok(None)
        ELSE IF obj.val.fmt = "tag" \/ (obj.val.fmt = "commit" /\ fmt = "tree")
             THEN KvlmField(obj.val.val, IF obj.val.fmt = "tag" THEN KEY_OBJECT ELSE KEY_TREE)
        ELSE Ok(None) :
        obj \in {object_read(w, sha)} })

\* the "while True" loop of object_find; an id met twice means it never ends
RECURSIVE object_follow(_, _, _, _, _)
object_follow(w, sha, fmt, follow, seen) ==
  The({ IF ~obj.ok THEN obj
        ELSE IF obj.val = NoObject THEN Err("AttributeError")
        ELSE IF obj.val.fmt = fmt THEN Ok(sha)
        ELSE IF ~follow THEN Ok(None)
        ELSE IF obj.val.fmt = "tag" \/ (obj.val.fmt = "commit" /\ fmt = "tree")
             THEN The({ IF ~target.ok THEN target
                        ELSE IF sha \in seen THEN Err("diverges")
                        ELSE object_follow(w, target.val, fmt, follow, seen \cup {sha}) :
                        target \in {KvlmField(obj.val.val,
                                              IF obj.val.fmt = "tag" THEN KEY_OBJECT
                                              ELSE KEY_TREE)} })
        ELSE Ok(None) :
        obj \in {object_read(w, sha)} })

\* an object_find that takes one of several candidates
object_find_first(w, name, fmt, follow) ==
  The({ IF ~shalist.ok THEN shalist
        ELSE IF shalist.val = {} THEN Err("No such reference")
        ELSE IF fmt = "none" THEN Ok(The(shalist.val))
        ELSE object_follow(w, The(shalist.val), fmt, follow, {}) :
        shalist \in {object_resolve(w, name)} })

\* object_find(repo, name, fmt, follow); fmt "none" stands for fmt=None; the
\* message of the ambiguity lists the candidates
object_find(w, name, fmt, follow) ==
  The({ IF ~shalist.ok THEN shalist
        ELSE IF shalist.val = {} THEN Err("No such reference")
        ELSE IF Cardinality(shalist.val) > 1
             THEN [ok |-> FALSE, err |-> "Ambiguous reference", candidates |-> shalist.val]
        ELSE IF fmt = "none" THEN Ok(The(shalist.val))
        ELSE object_follow(w, The(shalist.val), fmt, follow, {}) :
        shalist \in {object_resolve(w, name)} })

\* ------------------------------------------------------------------------
\* The index file and the staging commands (index.py, commands.py)
\* ------------------------------------------------------------------------
\* index_read(repo): GitIndex() when there is no index file
index_read(w) ==
  LET p == repo_path(<<INDEX>>)
  IN IF ~IsDir(w, GITDIR) \/ ~Exists(w, p) THEN Ok(GitIndex(2, <<>>))
     ELSE index_parse(w.files[p])

\* index_write(repo, index): the file is opened once the bytes are built
index_store(w, index) ==
  The({ IF ~b.ok THEN [w |-> w, res |-> b]
        ELSE [w |-> WriteFile(w, repo_path(<<INDEX>>), b.val), res |-> Ok(None)] :
        b \in {index_write(index)} })

\* a path that os.path.abspath puts outside of the worktree
Outside(p) == StartsWith(p, <<46, 46, 47>>)

InSeq(x, s) == \E i \in 1..Len(s) : s[i] = x

\* _rm(repo, paths, delete, skip_missing)
_rm(w, paths, delete, skip_missing) ==
  The({ IF ~idx.ok THEN [w |-> w, res |-> idx]
        ELSE IF \E i \in 1..Len(paths) : Outside(paths[i])
             THEN [w |-> w, res |-> Err("Cannot remove path outside of worktree")]
        ELSE The({
          IF ~skip_missing /\ \E i \in 1..Len(paths) : paths[i] \notin gone
          THEN [w |-> w, res |-> Err("Cannot remove path not in index")]
          ELSE The({ index_store(IF delete
                                 THEN [w EXCEPT !.files = [q \in DOMAIN @ \ gone |-> @[q]]]
                                 ELSE w,
                                 index) :
                     index \in {GitIndex(idx.val.version,
                                         SelectSeq(idx.val.entries,
                                                   LAMBDA e : ~InSeq(e.name, paths)))} }) :
          gone \in {{ idx.val.entries[i].name :
                        i \in { j \in 1..Len(idx.val.entries) :
                                  InSeq(idx.val.entries[j].name, paths) } }} }) :
        idx \in {index_read(w)} })

\* os.stat(ap) of a path of st_size bytes: the seconds and nanoseconds of
\* its times, its device, inode and owner
os_stat(st_size) ==
  [st_ctime |-> <<1, 2>>, st_mtime |-> <<3, 4>>, st_dev |-> 5, st_ino |-> 6,
   st_uid |-> 7, st_gid |-> 8, st_size |-> st_size]

\* the "for p in paths" loop of _add: every blob is stored before the next
\* path is looked at
RECURSIVE add_loop(_, _, _)
add_loop(w, paths, entries) ==
  IF paths = <<>> THEN [w |-> w, res |-> Ok(entries)]
  ELSE LET p == Head(paths)
           st == os_stat(Len(w.files[p]))
       IN IF Outside(p) THEN [w |-> w, res |-> Err("File outside of worktree")]
          ELSE IF ~IsFile(w, p)
               THEN [w |-> w, res |-> Err("Not a file or does not exist")]
          ELSE The({
            IF ~blob.res.ok THEN [w |-> blob.w, res |-> blob.res]
            ELSE The({ add_loop(blob.w, Tail(paths), Append(entries, ie)) :
                       ie \in {GitIndexEntry(st.st_ctime, st.st_mtime, st.st_dev,
                                             st.st_ino, 8, 420, st.st_uid, st.st_gid,
                                             st.st_size, blob.res.val, FALSE, 0, p)} }) :
            blob \in {object_write(w, "blob", w.files[p], TRUE)} })

\* _add(repo, paths)
_add(w, paths) ==
  The({ IF ~r.res.ok THEN r
        ELSE The({
          IF ~idx.ok THEN [w |-> r.w, res |-> idx]
          ELSE The({ IF ~a.res.ok THEN a
                     ELSE index_store(a.w, GitIndex(idx.val.version, a.res.val)) :
                     a \in {add_loop(r.w, paths, idx.val.entries)} }) :
          idx \in {index_read(r.w)} }) :
        r \in {_rm(w, paths, FALSE, TRUE)} })

\* ------------------------------------------------------------------------
\* Commit (commands.py)
\* ------------------------------------------------------------------------
\* the keys that the "while key not in contents" loop adds for one entry
RECURSIVE NewKeys(_, _)
NewKeys(keys, key) ==
  IF InSeq(key, keys) THEN <<>>
  ELSE IF key = <<>> \/ dirname(key) = key THEN <<key>>
  ELSE <<key>> \o NewKeys(Append(keys, key), dirname(key))

\* the keys of contents in insertion order
RECURSIVE ContentKeys(_, _)
ContentKeys(entries, keys) ==
  IF entries = <<>> THEN keys
  ELSE ContentKeys(Tail(entries), keys \o NewKeys(keys, dirname(Head(entries).name)))

\* sorted(keys, key=len, reverse=True): stable, longest first
RECURSIVE InsertByLen(_, _)
InsertByLen(sorted, k) ==
  IF sorted = <<>> THEN <<k>>
  ELSE IF Len(k) > Len(Head(sorted)) THEN <<k>> \o sorted
  ELSE <<Head(sorted)>> \o InsertByLen(Tail(sorted), k)

RECURSIVE SortByLen(_)
SortByLen(keys) ==
  IF keys = <<>> THEN <<>>
  ELSE InsertByLen(SortByLen(SubSeq(keys, 1, Len(keys) - 1)), keys[Len(keys)])

\* tree_map.get(d): None when d has no tree yet
MapGet(tree_map, d) ==
  IF \E i \in 1..Len(tree_map) : tree_map[i][1] = d
  THEN (tree_map[CHOOSE i \in 1..Len(tree_map) : tree_map[i][1] = d])[2]
  ELSE None

\* the leaves of the subtrees of d
RECURSIVE ChildLeaves(_, _, _)
ChildLeaves(all_dirs, d, tree_map) ==
  IF all_dirs = <<>> THEN <<>>
  ELSE LET c == Head(all_dirs)
           sha == MapGet(tree_map, c)
       IN (IF dirname(c) = d /\ c # d /\ Truthy(sha)
           THEN <<GitTreeLeaf(MODE_DIR6, basename(c), sha)>> ELSE <<>>)
          \o ChildLeaves(Tail(all_dirs), d, tree_map)

\* the leaves of the index entries of d
RECURSIVE FileLeaves(_, _)
FileLeaves(entries, d) ==
  IF entries = <<>> THEN <<>>
  ELSE (IF dirname(Head(entries).name) = d
        THEN <<GitTreeLeaf(MODE_FILE, basename(Head(entries).name), Head(entries).sha)>>
        ELSE <<>>)
       \o FileLeaves(Tail(entries), d)

\* the "for d in all_dirs" loop of _tree_from_index: one tree written per
\* directory, deepest first
RECURSIVE tree_loop(_, _, _, _, _)
tree_loop(w, entries, all_dirs, todo, tree_map) ==
  IF todo = <<>> THEN [w |-> w, res |-> Ok(tree_map)]
  ELSE LET d == Head(todo)
       IN The({ IF ~t.res.ok THEN [w |-> t.w, res |-> t.res]
                ELSE The({ tree_loop(t.w, entries, all_dirs, Tail(todo), m) :
                           m \in {SelectSeq(tree_map, LAMBDA x : x[1] # d)
                                  \o << <<d, t.res.val>> >>} }) :
                t \in {object_write(w, "tree",
                                    FileLeaves(entries, d)
                                      \o ChildLeaves(all_dirs, d, tree_map),
                                    TRUE)} })

\* _tree_from_index(repo, idx): the id of the root tree
_tree_from_index(w, idx) ==
  The({ The({ IF ~t.res.ok THEN t
              ELSE IF MapGet(t.res.val, <<>>) = None
                   THEN [w |-> t.w, res |-> Err("KeyError")]
              ELSE [w |-> t.w, res |-> Ok(MapGet(t.res.val, <<>>))] :
              t \in {tree_loop(w, idx.entries, all_dirs, all_dirs, <<>>)} }) :
        all_dirs \in {SortByLen(ContentKeys(idx.entries, <<>>))} })

AUTHOR == <<87, 121, 97, 103, 32, 60, 119, 121, 97, 103, 64, 101, 120, 97, 109, 112, 108, 101, 46, 99, 111, 109, 62>>
TZ_UTC == <<43, 48, 48, 48, 48>>
DEFAULT_MESSAGE == <<67, 111, 109, 109, 105, 116, 32, 109, 101, 115, 115, 97, 103, 101>>

\* a _commit_create that leaves the parent out
_commit_create_orphan(w, tree_sha, parent_sha, author, timestamp, message) ==
  LET author_val == author \o <<SP>> \o Decimal(timestamp) \o <<SP>> \o TZ_UTC
  IN The({ object_write(w, "commit", kvlm, TRUE) :
           kvlm \in {<<Scalar(KEY_TREE, tree_sha),
                        Scalar(KEY_AUTHOR, author_val),
                        Scalar(KEY_COMMITTER, author_val),
                        Scalar(NoneKey, message)>>} })

\* _commit_create(repo, tree_sha, parent_sha, author, timestamp, message);
\* timestamp is the number of seconds
_commit_create(w, tree_sha, parent_sha, author, timestamp, message) ==
  LET author_val == author \o <<SP>> \o Decimal(timestamp) \o <<SP>> \o TZ_UTC
  IN The({ object_write(w, "commit", kvlm, TRUE) :
           kvlm \in {<<Scalar(KEY_TREE, tree_sha)>>
                     \o (IF Truthy(parent_sha) THEN <<Scalar(KEY_PARENT, parent_sha)>>
                         ELSE <<>>)
                     \o <<Scalar(KEY_AUTHOR, author_val),
                          Scalar(KEY_COMMITTER, author_val),
                          Scalar(NoneKey, message)>>} })

\* open(repo.repo_file("HEAD"), "r").read().strip()
head_content(w) ==
  LET p == repo_path(<<HEAD>>)
  IN IF ~IsFile(w, p) THEN Err("FileNotFoundError")
     ELSE IF ~Utf8Valid(w.files[p]) THEN Err("UnicodeDecodeError")
     ELSE Ok(Strip(w.files[p]))

\* cmd_commit(args) at time timestamp, args.message being message
cmd_commit(w, timestamp, message) ==
  The({ IF ~idx.ok THEN [w |-> w, res |-> idx]
        ELSE The({
          IF ~t.res.ok THEN [w |-> t.w, res |-> t.res]
          ELSE The({
            IF ~parent.ok THEN [w |-> t.w, res |-> parent]
            ELSE The({
              IF ~c.res.ok THEN [w |-> c.w, res |-> c.res]
              ELSE The({
                IF ~head.ok THEN [w |-> c.w, res |-> head]
                ELSE IF StartsWith(head.val, REF_PREFIX)
                     THEN The({ IF ~r.res.ok THEN r
                                ELSE [w |-> r.w, res |-> Ok(c.res.val)] :
                                r \in {ref_create(c.w, PySliceFrom(head.val, 5),
                                                  c.res.val)} })
                ELSE [w |-> WriteFile(c.w, repo_path(<<HEAD>>), c.res.val \o <<NL>>),
                      res |-> Ok(c.res.val)] :
                head \in {head_content(c.w)} }) :
              c \in {_commit_create(t.w, t.res.val, parent.val, AUTHOR, timestamp,
                                    IF message = <<>> THEN DEFAULT_MESSAGE
                                    ELSE message)} }) :
            parent \in {object_find(t.w, HEAD, "commit", FALSE)} }) :
          t \in {_tree_from_index(w, idx.val)} }) :
        idx \in {index_read(w)} })

\* ------------------------------------------------------------------------
\* Status (commands.py)
\* ------------------------------------------------------------------------
\* a dict {path -> sha} is a sequence of <<path, sha>> in insertion order
DictPut(d, k, v) ==
  IF \E i \in 1..Len(d) : d[i][1] = k
  THEN [i \in 1..Len(d) |-> IF d[i][1] = k THEN <<k, v>> ELSE d[i]]
  ELSE Append(d, <<k, v>>)

RECURSIVE DictUpdate(_, _)
DictUpdate(d, other) ==
  IF other = <<>> THEN d
  ELSE DictUpdate(DictPut(d, Head(other)[1], Head(other)[2]), Tail(other))

DictDel(d, k) == SelectSeq(d, LAMBDA m : m[1] # k)

\* os.path.join(prefix, path)
PathJoin(prefix, path) ==
  IF prefix = <<>> \/ (path # <<>> /\ path[1] = SLASH) THEN path
  ELSE IF prefix[Len(prefix)] = SLASH THEN prefix \o path
  ELSE prefix \o <<SLASH>> \o path

\* _tree_to_dict(repo, ref, prefix); a tree inside itself recurses for ever
RECURSIVE _tree_to_dict(_, _, _, _)
RECURSIVE leaves_to_dict(_, _, _, _, _)
leaves_to_dict(w, items, prefix, result, seen) ==
  IF items = <<>> THEN Ok(result)
  ELSE LET leaf == Head(items)
           full_path == PathJoin(prefix, leaf.path)
       IN IF StartsWith(leaf.mode, <<48, 52>>)
          THEN The({ IF ~subtree.ok THEN subtree
                     ELSE The({ leaves_to_dict(w, Tail(items), prefix, d, seen) :
                                d \in {DictUpdate(result, subtree.val)} }) :
                     subtree \in {_tree_to_dict(w, leaf.sha, full_path, seen)} })
          ELSE The({ leaves_to_dict(w, Tail(items), prefix, d, seen) :
                     d \in {DictPut(result, full_path, leaf.sha)} })

_tree_to_dict(w, ref, prefix, seen) ==
  The({ IF ~tree_sha.ok THEN tree_sha
        ELSE IF ~Truthy(tree_sha.val) THEN Ok(<<>>)
        ELSE IF tree_sha.val \in seen THEN Err("RecursionError")
        ELSE The({ IF ~t_obj.ok THEN t_obj
                   ELSE IF t_obj.val = NoObject THEN Err("AttributeError")
                   ELSE leaves_to_dict(w, t_obj.val.val, prefix, <<>>,
                                       seen \cup {tree_sha.val}) :
                   t_obj \in {object_read(w, tree_sha.val)} }) :
        tree_sha \in {object_find(w, ref, "tree", TRUE)} })

\* what _cmd_status_branch prints
_cmd_status_branch(w) ==
  The({ IF ~head.ok THEN head
        ELSE IF StartsWith(head.val, REF_PREFIX \o REFS_HEADS)
             THEN Ok(<<"On branch", PySliceFrom(head.val, 16)>>)
        ELSE The({ IF ~sha.ok THEN sha ELSE Ok(<<"Head detached at", sha.val>>) :
                   sha \in {object_find(w, HEAD, "none", TRUE)} }) :
        head \in {head_content(w)} })

\* the lines of the "for e in idx.entries" loop of _cmd_status_head_index
RECURSIVE staged_lines(_, _)
staged_lines(entries, head_tree) ==
  IF entries = <<>>
  THEN [i \in 1..Len(head_tree) |-> <<"deleted", head_tree[i][1]>>]
  ELSE LET e == Head(entries)
           at == { i \in 1..Len(head_tree) : head_tree[i][1] = e.name }
       IN (IF at = {} THEN << <<"added", e.name>> >>
           ELSE IF head_tree[CHOOSE i \in at : TRUE][2] # e.sha
                THEN << <<"modified", e.name>> >>
           ELSE <<>>)
          \o The({ staged_lines(Tail(entries), rest) :
                   rest \in {DictDel(head_tree, e.name)} })

\* what _cmd_status_head_index prints after its heading
_cmd_status_head_index(w, idx) ==
  The({ IF ~head_tree.ok THEN head_tree
        ELSE Ok(staged_lines(idx.entries, head_tree.val)) :
        head_tree \in {_tree_to_dict(w, HEAD, <<>>, {})} })

\* st.st_ctime_ns = e.ctime[0] * 10**9 + e.ctime[1], without the product
SameTime(st, t) ==
  /\ t[1] + (t[2] \div 1000000000) = st[1]
  /\ t[2] % 1000000000 = st[2]

\* the "for e in idx.entries" loop of _cmd_status_index_worktree; the blob
\* of a file whose timestamps differ is hashed, not stored
RECURSIVE unstaged_lines(_, _)
unstaged_lines(w, entries) ==
  IF entries = <<>> THEN [w |-> w, res |-> Ok(<<>>)]
  ELSE LET e == Head(entries)
           st == os_stat(0)
           changed == ~SameTime(st.st_ctime, e.ctime) \/ ~SameTime(st.st_mtime, e.mtime)
       IN IF IsDir(w, e.name) /\ changed
          THEN [w |-> w, res |-> Err("IsADirectoryError")]
          ELSE The({
            The({ IF ~rest.res.ok THEN rest
                  ELSE [w |-> rest.w,
                        res |-> Ok((IF ~Exists(w, e.name)
                                    THEN << <<"deleted", e.name>> >>
                                    ELSE IF changed /\ new.res.val # e.sha
                                         THEN << <<"modified", e.name>> >>
                                    ELSE <<>>)
                                   \o rest.res.val)] :
                  rest \in {unstaged_lines(new.w, Tail(entries))} }) :
            new \in {IF Exists(w, e.name) /\ changed
                     THEN object_write(w, "blob", w.files[e.name], FALSE)
                     ELSE [w |-> w, res |-> Ok(None), wrote |-> FALSE]} })

\* the files that os.walk finds outside of the gitdir
WorktreeFiles(w) ==
  { p \in DOMAIN w.files : ~StartsWith(p, GITDIR \o <<SLASH>>) }

\* cmd_status(args): out is what was printed, as <<label, path>> lines and
\* the set of untracked files, res tells how the command ended
cmd_status(w) ==
  The({ IF ~idx.ok THEN [w |-> w, res |-> idx, out |-> <<>>]
        ELSE The({
          IF ~branch.ok THEN [w |-> w, res |-> branch, out |-> <<>>]
          ELSE The({
            IF ~staged.ok THEN [w |-> w, res |-> staged, out |-> <<branch.val>>]
            ELSE The({
              IF ~unstaged.res.ok
              THEN [w |-> unstaged.w, res |-> unstaged.res,
                    out |-> <<branch.val>> \o staged.val]
              ELSE [w |-> unstaged.w,
                    res |-> Ok(WorktreeFiles(w)
                               \ { idx.val.entries[i].name :
                                     i \in 1..Len(idx.val.entries) }),
                    out |-> <<branch.val>> \o staged.val \o unstaged.res.val] :
              unstaged \in {unstaged_lines(w, idx.val.entries)} }) :
            staged \in {_cmd_status_head_index(w, idx.val)} }) :
          branch \in {_cmd_status_branch(w)} }) :
        idx \in {index_read(w)} })

\* cmd_hash_object(args): the object of class fmt built from the bytes of
\* args.path, then object_write with the repository (write) or without
cmd_hash_object(w, fmt, data, write) ==
  The({ IF ~o.ok THEN [w |-> w, res |-> o, wrote |-> FALSE]
        ELSE object_write(w, fmt, o.val, write) :
        o \in {deserialize(fmt, data)} })


\* ------------------------------------------------------------------------
\* The repository as a state machine: one action per command
\* ------------------------------------------------------------------------
MaxObjects == 4
MaxStaged == 1
MaxPaths == 1

BRANCHES == <<98, 114, 97, 110, 99, 104, 101, 115>>
REFS == <<114, 101, 102, 115>>
TAGS == <<116, 97, 103, 115>>
HEADS == <<104, 101, 97, 100, 115>>
DESCRIPTION == <<100, 101, 115, 99, 114, 105, 112, 116, 105, 111, 110>>
CONFIG == <<99, 111, 110, 102, 105, 103>>

\* repo_create(path) in a worktree w that has no gitdir yet
repo_create(w) ==
  LET d4 == repo_dir(repo_dir(repo_dir(repo_dir(w, <<BRANCHES>>, TRUE).w,
                                              <<OBJECTS>>, TRUE).w,
                                     <<REFS, TAGS>>, TRUE).w,
                            <<REFS, HEADS>>, TRUE).w
      f1 == WriteFile(d4, repo_path(<<DESCRIPTION>>),
              <<85, 110, 110, 97, 109, 101, 100, 32, 114, 101, 112, 111, 115, 105, 116, 111, 114, 121, 59, 32, 101, 100, 105, 116, 32, 116, 104, 105, 115, 32, 102, 105, 108, 101, 32, 39, 100, 101, 115, 99, 114, 105, 112, 116, 105, 111, 110, 39, 32, 116, 111, 32, 110, 97, 109, 101, 32, 116, 104, 101, 32, 114, 101, 112, 111, 115, 105, 116, 111, 114, 121, 46, 10>>)
      f2 == WriteFile(f1, repo_path(<<HEAD>>), REF_PREFIX \o REFS_HEADS_MASTER \o <<NL>>)
  IN WriteFile(f2, repo_path(<<CONFIG>>),
       <<91, 99, 111, 114, 101, 93, 10, 114, 101, 112, 111, 115, 105, 116, 111, 114, 121, 102, 111, 114, 109, 97, 116, 118, 101, 114, 115, 105, 111, 110, 32, 61, 32, 48, 10, 102, 105, 108, 101, 109, 111, 100, 101, 32, 61, 32, 102, 97, 108, 115, 101, 10, 98, 97, 114, 101, 32, 61, 32, 102, 97, 108, 115, 101, 10, 10>>)

\* the worktree: file "a" holding "x"
FileA == <<97>>
DataA == <<120>>

Worktree == [dirs |-> {<<>>}, files |-> [p \in {FileA} |-> DataA]]

\* the repository right after init
Fresh == repo_create(Worktree)

\* the same repository after git has staged "a" and made the first commit
\* on master: blob, tree, commit, index and branch ref are in place
Committed ==
  The({ The({ The({ ref_create(c.w, REFS_HEADS_MASTER, c.res.val).w :
                    c \in {_commit_create(t.w, t.res.val, None, AUTHOR, 0, <<105>>)} }) :
              t \in {_tree_from_index(a, index_read(a).val)} }) :
        a \in {_add(Fresh, <<FileA>>).w} })

World == [dirs |-> dirs, files |-> files]

\* the files of the object store and the ids they are stored under
ObjectFiles(w) ==
  { p \in DOMAIN w.files : StartsWith(p, repo_path(<<OBJECTS>>) \o <<SLASH>>) }

IdOfPath(p) ==
  LET rel == SubSeq(p, Len(repo_path(<<OBJECTS>>)) + 2, Len(p))
  IN SelectSeq(rel, LAMBDA c : c # SLASH)

StoredIds(w) == { IdOfPath(p) : p \in ObjectFiles(w) }

Init ==
  /\ codec = Input("none", "none", "none", <<>>)
  /\ \E w \in {Fresh, Committed} :
       /\ dirs = w.dirs
       /\ files = w.files
  /\ ret = NoCommand
  /\ procs = NoProcesses

\* the number of entries that the header of the index file announces
Staged(w) ==
  IF IsFile(w, repo_path(<<INDEX>>))
  THEN FromBytes(PySlice(w.files[repo_path(<<INDEX>>)], 8, 12)) ELSE 0

\* the command leaves the disk as in w; the numbers of stored objects and
\* of staged entries are capped
Becomes(w) ==
  /\ Cardinality(ObjectFiles(w)) <= MaxObjects
  /\ Staged(w) <= MaxStaged
  /\ dirs' = w.dirs
  /\ files' = w.files
  /\ UNCHANGED <<codec, procs>>

ObjectTypes == {"blob", "tree", "commit", "tag"}

\* contents of the file given to hash-object
Payloads == { <<NUL, 97>> }

\* hash-object [-w] -t fmt path
HashObject ==
  \E fmt \in ObjectTypes, data \in Payloads, write \in BOOLEAN :
    \E r \in {cmd_hash_object(World, fmt, data, write)} :
       /\ Becomes(r.w)
       /\ ret' = [op |-> "object_write", fmt |-> fmt, data |-> data,
                  write |-> write, res |-> r.res, wrote |-> r.wrote]

\* the ids a user names: the stored ones and one of each directory that
\* need not be stored
ObjectIds == StoredIds(World) \cup { Digest(0), Digest(1) }

\* object_read(repo, sha)
ObjectRead ==
  \E sha \in ObjectIds :
    /\ ret' = [op |-> "object_read", sha |-> sha, res |-> object_read(World, sha)]
    /\ UNCHANGED <<codec, dirs, files, procs>>

\* the paths a user names: the worktree file, a file that does not exist
\* and the file that stores the blob of the worktree file
FileZ == <<122>>
BlobFile == ObjectPath(Sha1(Framed("blob", DataA)))

PathPool == {FileA, FileZ, BlobFile}

PathLists == SeqsUpTo(PathPool, MaxPaths) \ { <<>> }

\* add path...
Add ==
  \E paths \in PathLists :
    \E r \in {_add(World, paths)} :
       /\ Becomes(r.w)
       /\ ret' = [op |-> "add", paths |-> paths, res |-> r.res]

\* rm path...
Rm ==
  \E paths \in PathLists :
    \E r \in {_rm(World, paths, TRUE, FALSE)} :
       /\ Becomes(r.w)
       /\ ret' = [op |-> "rm", paths |-> paths, res |-> r.res]

Timestamps == {1}
Messages == { <<>>, <<109>> }

\* commit -m message
Commit ==
  \E timestamp \in Timestamps, message \in Messages :
    \E r \in {cmd_commit(World, timestamp, message)} :
       /\ Becomes(r.w)
       /\ ret' = [op |-> "commit", message |-> message, res |-> r.res]

\* status
Status ==
  \E r \in {cmd_status(World)} :
     /\ Becomes(r.w)
     /\ ret' = [op |-> "status", res |-> r.res, out |-> r.out]

Next == HashObject \/ ObjectRead \/ Add \/ Rm \/ Commit \/ Status

Spec == Init /\ [][Next]_vars

\* C1: an object file, once it exists, keeps its bytes and is never removed,
\* and object_write to an id whose path exists writes nothing.
C1_WriteOnce ==
  [][ /\ \A p \in ObjectFiles(World) : p \in DOMAIN files' /\ files'[p] = files[p]
      /\ (/\ ret'.op = "object_write"
          /\ ret'.write
          /\ ret'.res.ok
          /\ Exists(World, ObjectPath(ret'.res.val))) => ~ret'.wrote ]_vars

\* C2: right after object_write has stored an object of type fmt, object_read
\* of the id it returned yields an object of type fmt with the same
\* serialization.
C2_StoreRoundTrip ==
  (ret.op = "object_write" /\ ret.write /\ ret.res.ok) =>
    \E o \in {object_read(World, ret.res.val)} :
      /\ o.ok
      /\ o.val.fmt = ret.fmt
      /\ serialize(ret.fmt, o.val.val)
           = serialize(ret.fmt, deserialize(ret.fmt, ret.data).val)

\* C3: object_read of an id that has no object file returns None.
C3_NotFoundIsNone ==
  (ret.op = "object_read" /\ ~IsFile(World, ObjectPath(ret.sha))) =>
    ret.res = Ok(NoObject)

\* ------------------------------------------------------------------------
\* Reading a stored file whose header is arbitrary
\* ------------------------------------------------------------------------
MaxPayload == 2

\* type tags: the four known ones, the empty one, "blub", "Blob", "\xc3\xa9"
HeaderTags ==
  { fmt_blob, fmt_tree, fmt_commit, fmt_tag, <<>>, <<98, 108, 117, 98>>,
    <<66, 108, 111, 98>>, <<195, 169>> }

StoredHeaders ==
  [tag : HeaderTags, size : 0..MaxPayload, payload : SeqsUpTo({97, NUL}, MaxPayload)]

StoredRaw(h) == h.tag \o <<SP>> \o Decimal(h.size) \o <<NUL>> \o h.payload

StoredId == Digest(0)

\* the repository right after init, with one file in the object store
InitRead ==
  \E h \in StoredHeaders :
    /\ codec = Input("stored", "bytes", "header", h)
    /\ \E w \in {WriteFile(repo_file(Fresh, ObjectParts(StoredId), TRUE).w,
                            ObjectPath(StoredId), Compress(StoredRaw(h)))} :
         /\ dirs = w.dirs
         /\ files = w.files
    /\ ret = NoCommand
    /\ procs = NoProcesses

SpecRead == InitRead /\ [][ObjectRead]_vars

\* C4: object_read raises for a stored file whose declared size differs from
\* the length of its payload, and for one whose type tag is not blob, tree,
\* commit or tag.
C4_HardError ==
  (codec.src = "header" /\ ret.op = "object_read" /\ ret.sha = StoredId) =>
    \A h \in {codec.chain[1].val} :
      (h.size # Len(h.payload) \/ h.tag \notin {fmt_blob, fmt_tree, fmt_commit, fmt_tag})
        => ~ret.res.ok

\* a blob whose declared size is wrong has been read, and refused
C4_Witness ==
  /\ codec.src = "header"
  /\ codec.chain[1].val.tag = fmt_blob
  /\ codec.chain[1].val.size # Len(codec.chain[1].val.payload)
  /\ ret.op = "object_read"
  /\ ret.sha = StoredId
  /\ ~ret.res.ok

\* ------------------------------------------------------------------------
\* The ref store: ref_create and ref_resolve on the refs of a repository
\* ------------------------------------------------------------------------
MaxBranches == 1

\* refs/heads/master and refs/heads/b, refs/heads/c, ...
Branches == {REFS_HEADS_MASTER} \cup { REFS_HEADS \o <<97 + i>> : i \in 1..MaxBranches }

RefNames == {HEAD} \cup Branches

\* refs/heads/none is never created
RefTargets == RefNames \cup {REFS_HEADS \o <<110, 111, 110, 101>>}

\* what ref_create is asked to write: an id, an id after a blank, or an
\* indirection
RefContents ==
  {Digest(0), <<SP>> \o Digest(1)} \cup { REF_PREFIX \o t : t \in RefTargets }

InitRefs ==
  /\ codec = Input("none", "none", "none", <<>>)
  /\ dirs = Fresh.dirs
  /\ files = Fresh.files
  /\ ret = NoCommand
  /\ procs = NoProcesses

RefCreate ==
  \E n \in RefNames, c \in RefContents :
    \E r \in {ref_create(World, n, c)} :
      /\ dirs' = r.w.dirs
      /\ files' = r.w.files
      /\ ret' = [op |-> "ref_create", ref |-> n, res |-> r.res]
      /\ UNCHANGED <<codec, procs>>

RefResolve ==
  \E n \in RefTargets :
    /\ ret' = [op |-> "ref_resolve", ref |-> n, res |-> ref_resolve(World, n)]
    /\ UNCHANGED <<codec, dirs, files, procs>>

NextRefs == RefCreate \/ RefResolve

SpecRefs == InitRefs /\ [][NextRefs]_vars

\* the trimmed content of the file of ref
RefData(w, ref) == Strip(w.files[repo_path(<<ref>>)])

\* the ref that the file of ref names, None when the file is absent or holds
\* no indirection
Target(w, ref) ==
  IF IsFile(w, repo_path(<<ref>>)) /\ StartsWith(RefData(w, ref), REF_PREFIX)
  THEN PySliceFrom(RefData(w, ref), 5) ELSE None

\* the ref reached from ref after at most n indirections
RECURSIVE Walk(_, _, _)
Walk(w, ref, n) ==
  IF n = 0 \/ Target(w, ref) = None THEN ref ELSE Walk(w, Target(w, ref), n - 1)

\* the chain that starts at ref ends: no ref is met twice
Acyclic(w, ref) == Target(w, Walk(w, ref, Cardinality(DOMAIN w.files))) = None

\* C12: ref_resolve returns None when the ref file is absent, the trimmed
\* content when the file holds a direct id, otherwise what resolving the
\* target returns; on an acyclic chain that is the id at the end of the
\* chain, or None when the chain ends at an absent ref, read from the ref
\* files as they are now.
C12_RefResolve ==
  (ret.op = "ref_resolve" /\ Acyclic(World, ret.ref)) =>
    \E end \in {Walk(World, ret.ref, Cardinality(DOMAIN files))} :
      /\ ~IsFile(World, repo_path(<<ret.ref>>)) => ret.res = Ok(None)
      /\ (IsFile(World, repo_path(<<ret.ref>>)) /\ Target(World, ret.ref) = None)
           => ret.res = Ok(RefData(World, ret.ref))
      /\ Target(World, ret.ref) # None
           => ret.res = ref_resolve(World, Target(World, ret.ref))
      /\ ret.res = IF IsFile(World, repo_path(<<end>>))
                   THEN Ok(RefData(World, end)) ELSE Ok(None)

\* HEAD has been resolved through two indirections, which only ref_create
\* calls can have set up, to the id the last branch holds
C12_Witness ==
  /\ ret.op = "ref_resolve"
  /\ ret.ref = HEAD
  /\ Acyclic(World, HEAD)
  /\ Walk(World, HEAD, 2) # Walk(World, HEAD, 1)
  /\ ret.res = Ok(Digest(1))

\* C13: ref_resolve comes to an end on every ref store, symbolic refs that
\* point at each other or at themselves included: the recursion stops at a
\* direct id or at a broken chain.
C13_Terminates ==
  ret.op = "ref_resolve" => ret.res # Err("RecursionError")

\* ------------------------------------------------------------------------
\* Name resolution: blobs in the store, a tag and branches, names resolved
\* ------------------------------------------------------------------------
MaxBlobs == 3

\* the blobs "x", "y", "z", ...
BlobPayloads == { <<119 + i>> : i \in 1..MaxBlobs }

NameT == <<116>>
NameHex == <<65, 66, 67, 68>>

\* refs/tags/t, refs/heads/t and the branch refs/heads/ABCD
TagAndBranchRefs == {REFS_TAGS \o NameT, REFS_HEADS \o NameT, REFS_HEADS \o NameHex}

\* the names a user gives: a tag or branch name, a hex-looking branch name,
\* the stored ids and their prefixes of 4 and of 3 characters
ResolveNames ==
  {NameT, NameHex} \cup StoredIds(World)
  \cup { PySlice(id, 0, 4) : id \in StoredIds(World) }
  \cup { PySlice(id, 0, 3) : id \in StoredIds(World) }

InitResolve ==
  /\ codec = Input("none", "none", "none", <<>>)
  /\ dirs = Fresh.dirs
  /\ files = Fresh.files
  /\ ret = NoCommand
  /\ procs = NoProcesses

WriteBlob ==
  \E data \in BlobPayloads :
    \E r \in {cmd_hash_object(World, "blob", data, TRUE)} :
      /\ dirs' = r.w.dirs
      /\ files' = r.w.files
      /\ ret' = [op |-> "object_write", fmt |-> "blob", data |-> data,
                 write |-> TRUE, res |-> r.res, wrote |-> r.wrote]
      /\ UNCHANGED <<codec, procs>>

CreateTagOrBranch ==
  \E n \in TagAndBranchRefs, sha \in StoredIds(World) :
    \E r \in {ref_create(World, n, sha)} :
      /\ dirs' = r.w.dirs
      /\ files' = r.w.files
      /\ ret' = [op |-> "ref_create", ref |-> n, res |-> r.res]
      /\ UNCHANGED <<codec, procs>>

Resolve ==
  \E name \in ResolveNames :
    /\ ret' = [op |-> "object_resolve", name |-> name,
               res |-> object_resolve(World, name)]
    /\ UNCHANGED <<codec, dirs, files, procs>>

FindName ==
  \E name \in ResolveNames \cup {HEAD} :
    /\ ret' = [op |-> "object_find", name |-> name, fmt |-> "none", follow |-> TRUE,
               res |-> object_find(World, name, "none", TRUE)]
    /\ UNCHANGED <<codec, dirs, files, procs>>

NextResolve == WriteBlob \/ CreateTagOrBranch \/ Resolve \/ FindName

SpecResolve == InitResolve /\ [][NextResolve]_vars

\* the stored ids that a name of 4 to 40 hex characters abbreviates
StoreMatches(w, name) ==
  IF hash_re(name) THEN { id \in StoredIds(w) : StartsWith(id, Lower(name)) } ELSE {}

\* the id that ref resolves to, if any
RefId(w, ref) ==
  The({ IF r.ok /\ Truthy(r.val) THEN {r.val} ELSE {} : r \in {ref_resolve(w, ref)} })

\* C14: for a name other than HEAD, object_resolve returns exactly the
\* stored ids that the name abbreviates when it is 4 to 40 hex characters,
\* the id of refs/tags/<name> and the id of refs/heads/<name>, with <name>
\* as the caller gave it, each id once.
C14_ResolveSet ==
  (ret.op = "object_resolve" /\ ret.name # HEAD) =>
    ret.res = Ok(StoreMatches(World, ret.name)
                 \cup RefId(World, REFS_TAGS \o ret.name)
                 \cup RefId(World, REFS_HEADS \o ret.name))

\* C15: object_find raises "no such reference" exactly when object_resolve
\* yields no candidate, raises "ambiguous reference" with all the candidates
\* exactly when it yields several, and returns no id but the only candidate.
C15_FindErrors ==
  ret.op = "object_find" =>
    \A c \in {object_resolve(World, ret.name)} :
      c.ok =>
        /\ (ret.res = Err("No such reference")) = (c.val = {})
        /\ (ret.res = [ok |-> FALSE, err |-> "Ambiguous reference", candidates |-> c.val])
             = (Cardinality(c.val) > 1)
        /\ ret.res.ok => c.val = {ret.res.val}

\* a prefix of 4 characters that two stored ids share has been refused
C15_Witness ==
  /\ ret.op = "object_find"
  /\ Len(ret.name) = 4
  /\ hash_re(ret.name)
  /\ Cardinality(StoreMatches(World, ret.name)) = 2
  /\ ~ret.res.ok
  /\ ret.res.err = "Ambiguous reference"
  /\ ret.res.candidates = StoreMatches(World, ret.name)

\* ------------------------------------------------------------------------
\* Type following: objects written one by one, each tag or commit naming a
\* stored id or an id that is not stored, then object_find on a stored id
\* ------------------------------------------------------------------------
MaxStored == 3

\* an id in a directory of its own, never stored
AbsentId == HexOfRaw(<<2>> \o Zeros(ShaRawLen - 1))

FindTargets == StoredIds(World) \cup {AbsentId}

\* what hash-object -w is given: a blob, the empty tree, the two bytes that
\* tree_parse takes for a tree, commits and tags of one header
FindPayloads ==
  {<<"blob", DataA>>, <<"tree", <<>>>>, <<"tree", <<NUL, 97>>>>}
  \cup { <<"commit", KEY_TREE \o <<SP>> \o id \o <<NL, NL>>>> : id \in FindTargets }
  \cup { <<"tag", KEY_OBJECT \o <<SP>> \o id \o <<NL, NL>>>> : id \in FindTargets }

InitFind ==
  /\ codec = Input("none", "none", "none", <<>>)
  /\ dirs = Fresh.dirs
  /\ files = Fresh.files
  /\ ret = NoCommand
  /\ procs = NoProcesses

WriteObject ==
  /\ Cardinality(StoredIds(World)) < MaxStored
  /\ \E p \in FindPayloads :
       \E r \in {cmd_hash_object(World, p[1], p[2], TRUE)} :
         /\ dirs' = r.w.dirs
         /\ files' = r.w.files
         /\ ret' = [op |-> "object_write", fmt |-> p[1], data |-> p[2],
                    write |-> TRUE, res |-> r.res, wrote |-> r.wrote]
         /\ UNCHANGED <<codec, procs>>

FindObject ==
  \E sha \in StoredIds(World), fmt \in ObjectTypes, follow \in BOOLEAN :
    /\ ret' = [op |-> "object_find", name |-> sha, fmt |-> fmt, follow |-> follow,
               res |-> object_find(World, sha, fmt, follow)]
    /\ UNCHANGED <<codec, dirs, files, procs>>

NextFind == WriteObject \/ FindObject

SpecFind == InitFind /\ [][NextFind]_vars

\* the type of the object stored under id, "none" when there is none or it
\* cannot be read
TypeOf(w, id) ==
  IF id = None THEN "none"
  ELSE The({ IF o.ok THEN o.val.fmt ELSE "none" : o \in {object_read(w, id)} })

\* the id in field key of the commit or tag stored under id, None without
FieldOf(w, id, key) ==
  IF TypeOf(w, id) \notin {"commit", "tag"} THEN None
  ELSE The({ IF f.ok THEN f.val ELSE None :
             f \in {KvlmField(object_read(w, id).val.val, key)} })

\* the id reached from id through at most n tags
RECURSIVE Peel(_, _, _)
Peel(w, id, n) ==
  IF n = 0 \/ TypeOf(w, id) # "tag" THEN id ELSE Peel(w, FieldOf(w, id, KEY_OBJECT), n - 1)

\* C16: with follow, object_find of an id returns the id itself when its
\* object has the wanted type, goes through any chain of tags to the object
\* they name, and from a commit to its tree when a tree is wanted.
C16_Follow ==
  (ret.op = "object_find" /\ ret.follow /\ ret.name \in StoredIds(World)) =>
    \A end \in {Peel(World, ret.name, MaxStored)} :
      /\ TypeOf(World, ret.name) = ret.fmt => ret.res = Ok(ret.name)
      /\ TypeOf(World, end) = ret.fmt => ret.res = Ok(end)
      /\ (/\ ret.fmt = "tree"
          /\ TypeOf(World, end) = "commit"
          /\ TypeOf(World, FieldOf(World, end, KEY_TREE)) = "tree")
           => ret.res = Ok(FieldOf(World, end, KEY_TREE))

\* a tag of a commit has been resolved to the tree of the commit
C16_Witness ==
  /\ ret.op = "object_find"
  /\ ret.follow
  /\ ret.fmt = "tree"
  /\ TypeOf(World, ret.name) = "tag"
  /\ TypeOf(World, FieldOf(World, ret.name, KEY_OBJECT)) = "commit"
  /\ ret.res.ok
  /\ ret.res.val # ret.name
  /\ TypeOf(World, ret.res.val) = "tree"

\* C17: when following cannot reach the wanted type, object_find raises
\* "no such reference": a blob when a tree is wanted, a commit or tree when
\* a blob is wanted, a tag or commit that names an id without stored object.
C17_Unreachable ==
  (/\ ret.op = "object_find" /\ ret.follow /\ ret.name \in StoredIds(World)
   /\ \/ TypeOf(World, ret.name) = "blob" /\ ret.fmt = "tree"
      \/ TypeOf(World, ret.name) \in {"commit", "tree"} /\ ret.fmt = "blob"
      \/ /\ TypeOf(World, ret.name) = "tag" /\ ret.fmt # "tag"
         /\ FieldOf(World, ret.name, KEY_OBJECT) \notin StoredIds(World)
      \/ /\ TypeOf(World, ret.name) = "commit" /\ ret.fmt = "tree"
         /\ FieldOf(World, ret.name, KEY_TREE) \notin StoredIds(World))
    => ret.res = Err("No such reference")

\* C18: the loop of object_find comes to an end, with an id, None or an
\* exception, for every store that object_write can build and every id and
\* wanted type.
C18_FollowTerminates ==
  ret.op = "object_find" => ret.res # Err("diverges")

\* ------------------------------------------------------------------------
\* Processes that run object_write on the same object at the same time.
\* A process is at "stat" (os.path.exists of repo_dir), "makedirs",
\* "exists" (os.path.exists of object_write), "open", "write", and ends in
\* "done" or "raised".
\* ------------------------------------------------------------------------
MaxWriters == 2
MaxWrites == 2

\* the objects that the processes store: two blobs and the empty tree
RaceObjects == {<<"blob", DataA>>, <<"blob", <<121, 122>>>>, <<"tree", <<>>>>}

Writer(fmt, data) ==
  [op |-> "object_write", pc |-> "stat", fmt |-> fmt, data |-> data, pos |-> 0, wrote |-> FALSE]

\* the stores the processes start on: a new repository, one that has the
\* directory of the object, and one that holds the object
RaceStores(fmt, data) ==
  { Fresh,
    repo_dir(Fresh, <<OBJECTS, PySlice(Sha1(Framed(fmt, data)), 0, 2)>>, TRUE).w,
    cmd_hash_object(Fresh, fmt, data, TRUE).w }

InitWriteRace ==
  /\ codec = Input("none", "none", "none", <<>>)
  /\ ret = NoCommand
  /\ \E o \in RaceObjects :
       /\ procs = [p \in 1..MaxWriters |-> Writer(o[1], o[2])]
       /\ \E w \in RaceStores(o[1], o[2]) :
            /\ dirs = w.dirs
            /\ files = w.files

\* what process p writes, under which id, where
RaceBytes(p) == Compress(Framed(procs[p].fmt, procs[p].data))
RaceSha(p) == Sha1(Framed(procs[p].fmt, procs[p].data))
RaceDir(p) == repo_path(<<OBJECTS, PySlice(RaceSha(p), 0, 2)>>)
RacePath(p) == ObjectPath(RaceSha(p))

At(p, pc) == procs[p].op = "object_write" /\ procs[p].pc = pc

Goto(p, pc) == procs' = [procs EXCEPT ![p].pc = pc]

\* repo_dir: os.path.exists(path), os.path.isdir(path)
StatDir ==
  \E p \in DOMAIN procs :
    /\ At(p, "stat")
    /\ Goto(p, IF ~Exists(World, RaceDir(p)) THEN "makedirs"
               ELSE IF IsDir(World, RaceDir(p)) THEN "exists" ELSE "raised")
    /\ UNCHANGED <<codec, dirs, files, ret>>

\* repo_dir: os.makedirs(path), FileExistsError when the directory has
\* been made since
MakeDirs ==
  \E p \in DOMAIN procs :
    /\ At(p, "makedirs")
    /\ IF Exists(World, RaceDir(p))
       THEN Goto(p, "raised") /\ UNCHANGED dirs
       ELSE Goto(p, "exists") /\ dirs' = dirs \cup Ancestors(RaceDir(p))
    /\ UNCHANGED <<codec, files, ret>>

\* object_write: if not os.path.exists(path)
CheckExists ==
  \E p \in DOMAIN procs :
    /\ At(p, "exists")
    /\ Goto(p, IF Exists(World, RacePath(p)) THEN "done" ELSE "open")
    /\ UNCHANGED <<codec, dirs, files, ret>>

\* object_write: open(path, "wb") creates the file or empties it
OpenObject ==
  \E p \in DOMAIN procs :
    /\ At(p, "open")
    /\ files' = WriteFile(World, RacePath(p), <<>>).files
    /\ procs' = [procs EXCEPT ![p].pc = "write", ![p].pos = 0, ![p].wrote = TRUE]
    /\ UNCHANGED <<codec, dirs, ret>>

\* the bytes of one write call: the content goes out in MaxWrites calls
ChunkLen(bytes) == (Len(bytes) + MaxWrites - 1) \div MaxWrites

\* object_write: f.write(zlib.compress(full)), closed after the last bytes
WriteObjectBytes ==
  \E p \in DOMAIN procs :
    /\ At(p, "write")
    /\ \E chunk \in {PySlice(RaceBytes(p), procs[p].pos, procs[p].pos + ChunkLen(RaceBytes(p)))} :
         /\ files' = WriteFile(World, RacePath(p),
                                WriteAt(files[RacePath(p)], procs[p].pos, chunk)).files
         /\ procs' = [procs EXCEPT
                        ![p].pos = @ + Len(chunk),
                        ![p].pc = IF procs[p].pos + Len(chunk) >= Len(RaceBytes(p))
                                  THEN "done" ELSE "write"]
    /\ UNCHANGED <<codec, dirs, ret>>

NextWriteRace == StatDir \/ MakeDirs \/ CheckExists \/ OpenObject \/ WriteObjectBytes

SpecWriteRace == InitWriteRace /\ [][NextWriteRace]_vars

\* every object_write call has returned or raised
WritersFinished ==
  /\ procs # NoProcesses
  /\ \A p \in DOMAIN procs : At(p, "done") \/ At(p, "raised")

\* C19: when object_write calls that store the same object run at the same
\* time, then once all of them have finished the object file holds the
\* complete compressed encoding and object_read returns the object.
C19_RaceComplete ==
  WritersFinished =>
    /\ IsFile(World, RacePath(1))
    /\ files[RacePath(1)] = RaceBytes(1)
    /\ object_read(World, RaceSha(1))
         = Ok(GitObject(procs[1].fmt, deserialize(procs[1].fmt, procs[1].data).val))

\* all calls have finished and each of them opened and wrote the file
C19_Witness ==
  /\ WritersFinished
  /\ \A p \in DOMAIN procs : At(p, "done") /\ procs[p].wrote

\* ------------------------------------------------------------------------
\* Two processes that run index_write on the same repository at the same
\* time.  A process is at "open", "header", "body", and ends in "done".
\* ------------------------------------------------------------------------
\* the indexes the processes write: none, one and two entries
RaceIndexes ==
  { GitIndex(2, es) : es \in { <<>>, <<st_entry(1, 8, 0, FALSE)>>, <<st_entry(5, 8, 0, FALSE)>>,
                               <<st_entry(1, 8, 0, FALSE), st_entry(5, 8, 0, FALSE)>> } }

IndexWriter(index) ==
  [op |-> "index_write", pc |-> "open", index |-> index, pos |-> 0, last |-> FALSE]

InitIndexRace ==
  /\ codec = Input("none", "none", "none", <<>>)
  /\ ret = NoCommand
  /\ dirs = Fresh.dirs
  /\ files = Fresh.files
  /\ \E i \in RaceIndexes, j \in RaceIndexes :
       procs = <<IndexWriter(i), IndexWriter(j)>>

\* the bytes that process p has built before it opens the file
IndexImage(p) == index_write(procs[p].index).val

IndexAt(p, pc) == procs[p].op = "index_write" /\ procs[p].pc = pc

\* open(repo.repo_file("index"), "wb") creates the file or empties it
OpenIndex ==
  \E p \in DOMAIN procs :
    /\ IndexAt(p, "open")
    /\ files' = WriteFile(World, repo_path(<<INDEX>>), <<>>).files
    /\ procs' = [procs EXCEPT ![p].pc = "header", ![p].pos = 0]
    /\ UNCHANGED <<codec, dirs, ret>>

\* f.write(header): the 12 bytes of signature, version and count
WriteIndexHeader ==
  \E p \in DOMAIN procs :
    /\ IndexAt(p, "header")
    /\ files' = WriteFile(World, repo_path(<<INDEX>>),
                           WriteAt(files[repo_path(<<INDEX>>)], procs[p].pos,
                                   PySlice(IndexImage(p), 0, 12))).files
    /\ procs' = [procs EXCEPT ![p].pc = "body", ![p].pos = @ + 12]
    /\ UNCHANGED <<codec, dirs, ret>>

\* f.write(body), then the file is closed and index_write returns
WriteIndexBody ==
  \E p \in DOMAIN procs :
    /\ IndexAt(p, "body")
    /\ files' = WriteFile(World, repo_path(<<INDEX>>),
                           WriteAt(files[repo_path(<<INDEX>>)], procs[p].pos,
                                   PySliceFrom(IndexImage(p), 12))).files
    /\ procs' = [q \in DOMAIN procs |->
                   IF q = p THEN [procs[q] EXCEPT !.pc = "done", !.pos = Len(IndexImage(p)), !.last = TRUE]
                   ELSE [procs[q] EXCEPT !.last = FALSE]]
    /\ UNCHANGED <<codec, dirs, ret>>

NextIndexRace == OpenIndex \/ WriteIndexHeader \/ WriteIndexBody

SpecIndexRace == InitIndexRace /\ [][NextIndexRace]_vars

\* C20: when two processes run index_write at the same time, then once both
\* have finished the index file is byte for byte the image written by the
\* one that finished last, never a mixture of the two images.
C20_LastWriterWins ==
  (procs # NoProcesses /\ \A p \in DOMAIN procs : IndexAt(p, "done")) =>
    \E p \in DOMAIN procs :
      /\ procs[p].last
      /\ files[repo_path(<<INDEX>>)] = IndexImage(p)

\* ------------------------------------------------------------------------
\* Commits: a repository that is new, or in which git has made the first
\* commit, with HEAD on master or detached; "a" staged and unstaged, commits
\* ------------------------------------------------------------------------
MaxCommitStore == 5

\* the repository of Committed after "git checkout --detach"
Detached ==
  WriteFile(Committed, repo_path(<<HEAD>>), ref_resolve(Committed, HEAD).val \o <<NL>>)

InitCommit ==
  /\ codec = Input("none", "none", "none", <<>>)
  /\ \E w \in {Fresh, Committed, Detached} :
       /\ dirs = w.dirs
       /\ files = w.files
  /\ ret = NoCommand
  /\ procs = NoProcesses

\* add a
StageA ==
  \E r \in {_add(World, <<FileA>>)} :
    /\ dirs' = r.w.dirs
    /\ files' = r.w.files
    /\ ret' = [op |-> "add", paths |-> <<FileA>>, res |-> r.res]
    /\ UNCHANGED <<codec, procs>>

\* rm a
UnstageA ==
  \E r \in {_rm(World, <<FileA>>, TRUE, FALSE)} :
    /\ dirs' = r.w.dirs
    /\ files' = r.w.files
    /\ ret' = [op |-> "rm", paths |-> <<FileA>>, res |-> r.res]
    /\ UNCHANGED <<codec, procs>>

\* the seconds at which commits are made
CommitTimes == {1, 2}

\* commit -m message; kept with the outcome: what HEAD resolved to before,
\* whether HEAD was symbolic, and the number of staged entries
CommitHead ==
  /\ Cardinality(ObjectFiles(World)) < MaxCommitStore
  /\ \E timestamp \in CommitTimes, message \in Messages :
       \E r \in {cmd_commit(World, timestamp, message)} :
         /\ dirs' = r.w.dirs
         /\ files' = r.w.files
         /\ ret' = [op |-> "commit", message |-> message, res |-> r.res,
                    head_before |-> ref_resolve(World, HEAD),
                    symbolic |-> StartsWith(head_content(World).val, REF_PREFIX),
                    staged |-> Staged(World)]
         /\ UNCHANGED <<codec, procs>>

NextCommit == StageA \/ UnstageA \/ CommitHead

SpecCommit == InitCommit /\ [][NextCommit]_vars

\* the parent field of the commit stored under id, None without
ParentOf(w, id) == FieldOf(w, id, KEY_PARENT)

\* C21: after a commit that succeeds HEAD resolves to the id of the new
\* commit: a symbolic HEAD is left as it is and the branch it names holds
\* the id, a detached HEAD holds the id itself; the parent of the new commit
\* is the commit that HEAD resolved to before.
C21_HeadMoves ==
  (ret.op = "commit" /\ ret.res.ok) =>
    /\ ref_resolve(World, HEAD) = Ok(ret.res.val)
    /\ ret.symbolic =>
         /\ StartsWith(head_content(World).val, REF_PREFIX)
         /\ files[repo_path(<<PySliceFrom(head_content(World).val, 5)>>)]
              = ret.res.val \o <<NL>>
    /\ ~ret.symbolic => files[repo_path(<<HEAD>>)] = ret.res.val \o <<NL>>
    /\ TypeOf(World, ret.res.val) = "commit"
    /\ ParentOf(World, ret.res.val) = ret.head_before.val

\* a commit has been made on a detached HEAD, on top of a commit that was
\* itself made on the detached HEAD
C21_Witness ==
  /\ ret.op = "commit"
  /\ ret.res.ok
  /\ ~ret.symbolic
  /\ ParentOf(World, ret.res.val) = ret.head_before.val
  /\ ParentOf(World, ret.head_before.val) # None
  /\ ref_resolve(World, REFS_HEADS_MASTER) = Ok(ParentOf(World, ret.head_before.val))

\* C26: the first commit of a new repository with staged entries completes:
\* HEAD names refs/heads/master, which does not exist, that counts as "no
\* parent", a commit without parent is stored and refs/heads/master holds
\* its id.
C26_FirstCommit ==
  (/\ ret.op = "commit" /\ ret.symbolic /\ ret.head_before = Ok(None)
   /\ ret.staged > 0) =>
    /\ ret.res.ok
    /\ ref_resolve(World, REFS_HEADS_MASTER) = ret.res
    /\ ParentOf(World, ret.res.val) = None

\* ------------------------------------------------------------------------
\* Staging: add and rm with lists of paths, in a new repository whose
\* worktree holds the files "a" and "b"
\* ------------------------------------------------------------------------
MaxStagePaths == 2
MaxStageEntries == 3

FileB == <<98>>
DataB == <<121>>

\* "../x"
OutsidePath == <<46, 46, 47, 120>>

StageWorktree ==
  [dirs |-> {<<>>}, files |-> [p \in {FileA, FileB} |-> IF p = FileA THEN DataA ELSE DataB]]

StageFresh == repo_create(StageWorktree)

\* the paths a user names: the two files, a file that does not exist and a
\* path outside of the worktree
StagePaths == {FileA, FileB, FileZ, OutsidePath}

StageLists == SeqsUpTo(StagePaths, MaxStagePaths) \ { <<>> }

InitStage ==
  /\ codec = Input("none", "none", "none", <<>>)
  /\ dirs = StageFresh.dirs
  /\ files = StageFresh.files
  /\ ret = NoCommand
  /\ procs = NoProcesses

\* add path..., while the index file has room for the listed paths
AddPaths ==
  \E paths \in StageLists :
    \E r \in {_add(World, paths)} :
       /\ Staged(World) + MaxStagePaths <= MaxStageEntries
       /\ dirs' = r.w.dirs
       /\ files' = r.w.files
       /\ ret' = [op |-> "add", paths |-> paths, res |-> r.res]
       /\ UNCHANGED <<codec, procs>>

\* rm path...
RmPaths ==
  \E paths \in StageLists :
    \E r \in {_rm(World, paths, TRUE, FALSE)} :
       /\ dirs' = r.w.dirs
       /\ files' = r.w.files
       /\ ret' = [op |-> "rm", paths |-> paths, res |-> r.res]
       /\ UNCHANGED <<codec, procs>>

NextStage == AddPaths \/ RmPaths

SpecStage == InitStage /\ [][NextStage]_vars

\* the index entries that index_read returns, and those of them that are
\* not named in paths
IndexEntries(w) == index_read(w).val.entries

Others(entries, paths) == SelectSeq(entries, LAMBDA e : ~InSeq(e.name, paths))

NamedBy(entries, p) == { j \in 1..Len(entries) : entries[j].name = p }

\* C27: after _add(paths) succeeds, the index holds for each listed path
\* exactly one entry, at stage 0, whose id is the id of the stored blob of
\* the file's content, and the entries of all other paths as they were, in
\* their order; the same for a list that names a path twice.
C27_AddPostcondition ==
  [][(ret'.op = "add" /\ ret'.res.ok /\ index_read(World).ok) =>
       \E after \in {index_read([dirs |-> dirs', files |-> files'])} :
         /\ after.ok
         /\ \A i \in 1..Len(ret'.paths) :
              /\ Cardinality(NamedBy(after.val.entries, ret'.paths[i])) = 1
              /\ \A j \in NamedBy(after.val.entries, ret'.paths[i]) :
                   /\ after.val.entries[j].flag_stage = 0
                   /\ after.val.entries[j].sha = Sha1(Framed("blob", files'[ret'.paths[i]]))
                   /\ IsFile([dirs |-> dirs', files |-> files'],
                             ObjectPath(after.val.entries[j].sha))
         /\ Others(after.val.entries, ret'.paths) = Others(IndexEntries(World), ret'.paths)
    ]_vars

\* C28: _rm (skip_missing false) with a listed path that has no index
\* entry aborts and changes nothing: index file and worktree are as before.
\* When _rm succeeds the index holds no entry of a listed path and all other
\* entries in their order.
C28_RmAllOrNothing ==
  [][(ret'.op = "rm" /\ index_read(World).ok) =>
       /\ (\E i \in 1..Len(ret'.paths) : NamedBy(IndexEntries(World), ret'.paths[i]) = {}) =>
            (~ret'.res.ok /\ dirs' = dirs /\ files' = files)
       /\ ret'.res.ok =>
            index_read([dirs |-> dirs', files |-> files'])
              = Ok(GitIndex(2, Others(IndexEntries(World), ret'.paths)))
    ]_vars

\* C29: when _add raises, the index file holds the entries it held before.
C29_AddFailureKeepsIndex ==
  [][(ret'.op = "add" /\ ~ret'.res.ok) =>
       index_read([dirs |-> dirs', files |-> files']) = index_read(World)
    ]_vars

\* ------------------------------------------------------------------------
\* Referential integrity: add, rm and commit in a repository that
\* repo_create made
\* ------------------------------------------------------------------------
InitIntegrity ==
  /\ codec = Input("none", "none", "none", <<>>)
  /\ dirs = Fresh.dirs
  /\ files = Fresh.files
  /\ ret = NoCommand
  /\ procs = NoProcesses

MaxKept == 6
MaxIndexed == 2

\* the command leaves the disk as in w, within the caps on stored objects
\* and staged entries
Leaves(w) ==
  /\ Cardinality(ObjectFiles(w)) <= MaxKept
  /\ Staged(w) <= MaxIndexed
  /\ dirs' = w.dirs
  /\ files' = w.files
  /\ UNCHANGED <<codec, procs>>

\* add path, while the index file has room for one more entry
AddPath ==
  \E p \in PathPool :
    \E r \in {_add(World, <<p>>)} :
       /\ Staged(World) < MaxIndexed
       /\ Leaves(r.w)
       /\ ret' = [op |-> "add", paths |-> <<p>>, res |-> r.res]

\* rm path
RmPath ==
  \E p \in PathPool :
    \E r \in {_rm(World, <<p>>, TRUE, FALSE)} :
       /\ Leaves(r.w)
       /\ ret' = [op |-> "rm", paths |-> <<p>>, res |-> r.res]

\* commit -m message
CommitIndex ==
  \E message \in Messages :
    \E r \in {cmd_commit(World, 1, message)} :
       /\ Leaves(r.w)
       /\ ret' = [op |-> "commit", message |-> message, res |-> r.res]

NextIntegrity == AddPath \/ RmPath \/ CommitIndex

SpecIntegrity == InitIntegrity /\ [][NextIntegrity]_vars

\* the ids named by the entries of the index
IndexIds(w) ==
  The({ IF idx.ok THEN { idx.val.entries[i].sha : i \in 1..Len(idx.val.entries) } ELSE {} :
        idx \in {index_read(w)} })

\* the ids that HEAD and the branch master resolve to
RefIds(w) ==
  { r.val : r \in { q \in {ref_resolve(w, HEAD), ref_resolve(w, REFS_HEADS_MASTER)} :
                      q.ok /\ q.val # None } }

\* the ids named by the object stored under id: the entries of a tree, the
\* tree and the parent of a commit
ObjectIdsOf(w, id) ==
  The({ IF ~o.ok THEN {}
        ELSE IF o.val.fmt = "tree" THEN { o.val.val[i].sha : i \in 1..Len(o.val.val) }
        ELSE IF o.val.fmt = "commit"
             THEN {FieldOf(w, id, KEY_TREE), FieldOf(w, id, KEY_PARENT)} \ {None}
        ELSE {} :
        o \in {object_read(w, id)} })

\* C30: every id named by an index entry, by a resolvable ref, by an entry
\* of a stored tree or by the tree or parent field of a stored commit has a
\* stored object.
C30_ReferentialIntegrity ==
  /\ IndexIds(World) \subseteq StoredIds(World)
  /\ RefIds(World) \subseteq StoredIds(World)
  /\ \A id \in StoredIds(World) : ObjectIdsOf(World, id) \subseteq StoredIds(World)

====
